---- MODULE Spec2Model ----
(***************************************************************************)
(* A model of the scraper of pprzemek56/arbitrage_bot: the instruction     *)
(* executor and its handlers (scraper/instruction_handlers.py), the        *)
(* pipeline run (scraper/scraper_pipeline.py), the JSON path extractor and *)
(* the processor registry (scraper/processor_registry.py).                 *)
(*                                                                         *)
(* Seven specifications share the variables:                               *)
(*   Spec         one run of ScraperPipeline.run                           *)
(*   SpecCollect  one Collect over a page or a JSON payload                *)
(*   SpecProc     one call of ProcessorRegistry.process_value              *)
(*   SpecHandler  one handler on one instruction and one answer of the page*)
(*   SpecLoad     one ScraperRunner.run_scraper_from_file: load, then run  *)
(*   SpecPersist  _persist_results on one result, once and again           *)
(*   SpecShared   two runs at once, of one pipeline object or of two       *)
(***************************************************************************)
EXTENDS Integers, Sequences, FiniteSets, TLC

VARIABLES
    \* ---- ProcessorRegistry.process_value (SpecProc) ----
    pr_pc,        \* "idle" | "loop" | "done"
    pr_value,     \* the value argument
    pr_chain,     \* the processors argument
    pr_idx,       \* position of the for loop over processors (1-based)
    pr_cur,       \* current_value
    pr_calls,     \* history: the processor.process calls made, in order
    pr_out,       \* the returned value
    \* ---- one Collect (SpecCollect) ----
    col_pc,       \* "idle" | "start" | "done"
    col_mode,     \* "dom": CollectHandler.execute, "json": _process_json_collection
    col_instr,    \* the CollectInstruction
    col_src,      \* the page (dom) or the parsed payload (json)
    col_res,      \* what the Collect returned and stored
    \* ---- one ScraperPipeline.run (Spec) ----
    pc,             \* where the run is
    config,         \* self.config: fetcher type and instructions
    fetcher,        \* self.fetcher: "none" or the fetcher type
    session,        \* what the fetcher has open: "none" | "browser" | "page" (current_page set)
    result,         \* the ScrapingResult of the run
    exc,            \* the exception that is propagating: "none" | "Exception" | "Cancelled"
    stack,          \* the calls of execute_instruction under way, innermost last
    loop_counters,  \* InstructionContext.loop_counters
    variables,      \* InstructionContext.variables
    collected_data, \* InstructionContext.collected_data, in insertion order
    last,           \* history: the last execute_instruction that ended, and how
    calls,          \* history: creations, cleanups, close_sessions, cancellations so far
    loop_log,       \* history of the loops: the latest test or end of pass, the passes made
    \* ---- one handler on one instruction (SpecHandler) ----
    h_pc,           \* "idle" | "start" | "done"
    h_instr,        \* the instruction
    h_obs,          \* what the page operation of the handler does
    h_cobs,         \* what the page answers to the condition of the handler
    h_res,          \* what execute returned
    \* ---- _persist_results on one result, once and again (SpecPersist) ----
    ps_pc,          \* "idle" | "start" | "loop" | "done"
    ps_events,      \* result.events
    ps_markets,     \* result.markets
    ps_selections,  \* result.selections
    ps_ids,         \* history: the identities this submission obtained, in order
    ps_i,           \* position of the for loop over result.events (1-based)
    ps_calls,       \* history: the save_event_data calls of this submission, in order
    ps_store,       \* the rows of the events table, in insertion order
    ps_errors,      \* the errors this submission added to result.errors
    ps_round,       \* which submission of the result this is
    \* ---- two runs at once (SpecShared) ----
    sh_pc,          \* where each of the two runs is
    sh_same,        \* the two runs are run() of the same ScraperPipeline object
    sh_fetcher,     \* self.fetcher of each pipeline object: 0 (None) or the source it holds
    sh_log          \* history: the operations made on the sources, [run, source, op, busy]

procVars == <<pr_pc, pr_value, pr_chain, pr_idx, pr_cur, pr_calls, pr_out>>

colVars == <<col_pc, col_mode, col_instr, col_src, col_res>>

runVars ==
    <<pc, config, fetcher, session, result, exc, stack, loop_counters, variables,
      collected_data, last, calls, loop_log>>

handlerVars == <<h_pc, h_instr, h_obs, h_cobs, h_res>>

persistVars ==
    <<ps_pc, ps_events, ps_markets, ps_selections, ps_ids, ps_i, ps_calls, ps_store,
      ps_errors, ps_round>>

sharedVars == <<sh_pc, sh_same, sh_fetcher, sh_log>>

vars == <<procVars, colVars, runVars, handlerVars, persistVars, sharedVars>>

(***************************************************************************)
(* Bounds of the model.                                                    *)
(***************************************************************************)
\* longest processor chain handed to process_value
MaxChain == 3

\* most items on one page or in one payload, over all its containers
MaxItems == 3

\* most containers the container selector matches on one page
MaxContainers == 2

\* largest limit of a Collect
MaxLimit == 2

(***************************************************************************)
(* Python values.  A value is a record [t, s]: t is the Python type and s  *)
(* the text of the value (the decimal digits of an int).                   *)
(***************************************************************************)
StrV(s) == [t |-> "str", s |-> s]

IntV(s) == [t |-> "int", s |-> s]

NoneV == [t |-> "NoneType", s |-> "None"]

\* str(value)
PyStr(v) == v.s

\* The texts of the model are "", "Ab", " Ab ", "AB", " AB ", "ab", " ab ",
\* "12", " 12 " and "0"; every string operation below is closed on them.

\* str.strip()
Strip(s) ==
    CASE s = " Ab " -> "Ab"
      [] s = " AB " -> "AB"
      [] s = " ab " -> "ab"
      [] s = " 12 " -> "12"
      [] OTHER -> s

(***************************************************************************)
(* The processors.  Each returns [threw, v]: whether process() raised and, *)
(* when it did not, the value it returned.                                 *)
(***************************************************************************)
Returned(v) == [threw |-> FALSE, v |-> v]

Threw == [threw |-> TRUE, v |-> NoneV]

\* the args of a processor step; absent keys take the defaults of process()
NoArgs == [delimiter |-> " ", index |-> 0]

TrimProcessor(value, args) ==
    IF value = NoneV THEN Returned(StrV("")) ELSE Returned(StrV(Strip(PyStr(value))))

\* Upper is str.upper()
UppercaseProcessor(value, args) ==
    LET Upper(s) == CASE s \in {"Ab", "ab"} -> "AB"
                      [] s \in {" Ab ", " ab "} -> " AB "
                      [] OTHER -> s
    IN  IF value = NoneV THEN Returned(StrV("")) ELSE Returned(StrV(Upper(PyStr(value))))

\* Lower is str.lower()
LowercaseProcessor(value, args) ==
    LET Lower(s) == CASE s \in {"Ab", "AB"} -> "ab"
                      [] s \in {" Ab ", " AB "} -> " ab "
                      [] OTHER -> s
    IN  IF value = NoneV THEN Returned(StrV("")) ELSE Returned(StrV(Lower(PyStr(value))))

\* re.search(r'[\d,]+\.?\d*', ...) finds digits only in "12", " 12 " and "0"
NumberProcessor(value, args) ==
    IF value = NoneV THEN Returned(IntV("0"))
    ELSE IF Strip(PyStr(value)) = "12" THEN Returned(IntV("12"))
    ELSE Returned(IntV("0"))

\* str.split("") raises ValueError("empty separator"), which process() does
\* not catch; parts[index] out of range is caught and gives "".  SplitBlank
\* is str.split(" "): the parts of s around single blanks.
SplitProcessor(value, args) ==
    IF value = NoneV THEN Returned(StrV(""))
    ELSE IF args.delimiter = "" THEN Threw
    ELSE LET SplitBlank(s) ==
                 IF s \in {" Ab ", " AB ", " ab ", " 12 "} THEN <<"", Strip(s), "">>
                 ELSE <<s>>
             parts == SplitBlank(PyStr(value))
         IN  IF args.index + 1 \in DOMAIN parts
             THEN Returned(StrV(Strip(parts[args.index + 1])))
             ELSE Returned(StrV(""))

\* the names _register_default_processors registers that the model uses
RegisteredProcessors == {"trim", "uppercase", "lowercase", "number", "split"}

\* processor.process(current_value, **merged_args)
Process(name, value, args) ==
    CASE name = "trim" -> TrimProcessor(value, args)
      [] name = "uppercase" -> UppercaseProcessor(value, args)
      [] name = "lowercase" -> LowercaseProcessor(value, args)
      [] name = "number" -> NumberProcessor(value, args)
      [] name = "split" -> SplitProcessor(value, args)

(***************************************************************************)
(* Processor configs.  form is the Python type of the list element: a str  *)
(* (a bare name), a dict (name and args), or a ProcessorConfig object, the *)
(* type pydantic gives a step declared with args in FieldConfig.processors.*)
(***************************************************************************)
StepStr(name) == [form |-> "str", name |-> name, args |-> NoArgs]

StepDict(name, args) == [form |-> "dict", name |-> name, args |-> args]

StepObject(name, args) == [form |-> "object", name |-> name, args |-> args]

ProcessorConfigs ==
    { StepStr("trim"), StepStr("uppercase"), StepStr("lowercase"),
      StepStr("number"), StepStr("nope"),
      StepDict("split", [delimiter |-> " ", index |-> 1]),
      StepDict("split", [delimiter |-> "", index |-> 0]),
      StepObject("uppercase", NoArgs) }

\* the processor a config names, "" when the config is skipped: neither a
\* str nor a dict, or a name the registry does not know
ResolveProcessor(cfg) ==
    IF cfg.form \notin {"str", "dict"} THEN ""
    ELSE IF cfg.name \notin RegisteredProcessors THEN ""
    ELSE cfg.name

\* the args process() is called with: {} for a bare name
ProcessorArgs(cfg) == IF cfg.form = "str" THEN NoArgs ELSE cfg.args

\* a process_value whose except clause leaves the loop
AfterProcessor_Break(idx, threw, n) == IF threw THEN n + 1 ELSE idx + 1

\* where the for loop of process_value goes after the step at idx of a
\* chain of n steps: the except clause only logs, so always the next step
AfterProcessor(idx, threw, n) == idx + 1

\* current_value after a call: the except clause leaves it as it was
ValueAfterProcessor(cur, res) == IF res.threw THEN cur ELSE res.v

\* no Collect of SpecCollect is under way
IdleCollect ==
    /\ col_pc = "idle"
    /\ col_mode = "none"
    /\ col_instr = <<>>
    /\ col_src = <<>>
    /\ col_res = <<>>

\* no execute_instruction has ended
NoCall == [type |-> "", id |-> 0, how |-> "", result |-> "none"]

\* no loop has made a test: id is the loop of the latest test or end of pass,
\* ops the conditions it evaluated and what it did with the next control, in
\* order, passes the passes each loop has begun since the run began
NoLoop == [id |-> 0, ops |-> <<>>, passes |-> <<>>]

\* no run of Spec is under way
IdleRun ==
    /\ pc = "idle"
    /\ config = <<>>
    /\ fetcher = "none"
    /\ session = "none"
    /\ result = <<>>
    /\ exc = "none"
    /\ stack = <<>>
    /\ loop_counters = <<>>
    /\ variables = <<>>
    /\ collected_data = <<>>
    /\ last = NoCall
    /\ calls = <<>>
    /\ loop_log = NoLoop

\* no handler of SpecHandler is under way
IdleHandler ==
    /\ h_pc = "idle"
    /\ h_instr = <<>>
    /\ h_obs = ""
    /\ h_cobs = <<>>
    /\ h_res = ""

\* no _persist_results of SpecPersist is under way
IdlePersist ==
    /\ ps_pc = "idle"
    /\ ps_events = <<>>
    /\ ps_markets = <<>>
    /\ ps_selections = <<>>
    /\ ps_ids = <<>>
    /\ ps_i = 0
    /\ ps_calls = <<>>
    /\ ps_store = <<>>
    /\ ps_errors = <<>>
    /\ ps_round = 0

\* no run of SpecShared is under way
IdleShared ==
    /\ sh_pc = <<>>
    /\ sh_same = FALSE
    /\ sh_fetcher = <<>>
    /\ sh_log = {}

\* no process_value of SpecProc is under way
IdleProc ==
    /\ pr_pc = "idle"
    /\ pr_value = NoneV
    /\ pr_chain = <<>>
    /\ pr_idx = 1
    /\ pr_cur = NoneV
    /\ pr_calls = <<>>
    /\ pr_out = NoneV

InitProc ==
    /\ IdleCollect
    /\ IdleRun
    /\ IdleHandler
    /\ IdlePersist
    /\ IdleShared
    /\ pr_pc = "loop"
    /\ pr_value \in { StrV(s) : s \in {" Ab ", "ab", " 12 "} } \cup {NoneV}
    /\ pr_chain \in UNION { [1..k -> ProcessorConfigs] : k \in 0..MaxChain }
    /\ pr_idx = 1
    /\ pr_cur = pr_value
    /\ pr_calls = <<>>
    /\ pr_out = NoneV

\* one iteration of "for processor_config in processors"
ProcessValueStep ==
    /\ pr_pc = "loop"
    /\ pr_idx <= Len(pr_chain)
    /\ LET cfg == pr_chain[pr_idx]
           name == ResolveProcessor(cfg)
       IN  IF name = ""
           THEN /\ pr_idx' = pr_idx + 1
                /\ UNCHANGED <<pr_cur, pr_calls>>
           ELSE LET res == Process(name, pr_cur, ProcessorArgs(cfg))
                IN  /\ pr_cur' = ValueAfterProcessor(pr_cur, res)
                    /\ pr_calls' = Append(pr_calls,
                          [idx |-> pr_idx, inp |-> pr_cur, threw |-> res.threw,
                           out |-> res.v])
                    /\ pr_idx' = AfterProcessor(pr_idx, res.threw, Len(pr_chain))
    /\ UNCHANGED <<pr_pc, pr_value, pr_chain, pr_out, colVars, runVars, handlerVars, persistVars, sharedVars>>

\* "return current_value"
ProcessValueReturn ==
    /\ pr_pc = "loop"
    /\ pr_idx > Len(pr_chain)
    /\ pr_pc' = "done"
    /\ pr_out' = pr_cur
    /\ UNCHANGED <<pr_value, pr_chain, pr_idx, pr_cur, pr_calls, colVars, runVars, handlerVars, persistVars, sharedVars>>

NextProc == ProcessValueStep \/ ProcessValueReturn

SpecProc == InitProc /\ [][NextProc]_vars

(***************************************************************************)
(* Collect in DOM mode: CollectHandler.execute and _extract_field.         *)
(*                                                                         *)
(* An element answers query_selector(sel) with a target: no match, a       *)
(* raised error, or a matched element with its text_content() and its      *)
(* get_attribute("href") (NoneV when the page gives None).                 *)
(***************************************************************************)
NoTarget == [k |-> "none", text |-> NoneV, href |-> NoneV]

RaisingTarget == [k |-> "raise", text |-> NoneV, href |-> NoneV]

Target(text, href) == [k |-> "el", text |-> text, href |-> href]

\* element.query_selector(selector); the fields of the model use the CSS
\* selectors ".a" and ".b"
QuerySelector(element, selector) == element[selector]

\* Optional[int]: None, or an int
NoInt == [some |-> FALSE, v |-> 0]

SomeInt(n) == [some |-> TRUE, v |-> n]

\* truth value of an Optional[int]: None and 0 are false
Truthy(opt) == opt.some /\ opt.v # 0

\* FieldConfig.selector in DOM mode: a str, or a list of str
CssSelector(s) == [list |-> FALSE, sels |-> <<s>>]

CssList(ss) == [list |-> TRUE, sels |-> ss]

FieldConfig(selector, attribute, default, processors) ==
    [selector |-> selector, attribute |-> attribute, default |-> default,
     processors |-> processors]

\* a field that is always the same text, whatever the default it declares
DefaultOrEmpty_Blank(fc) == StrV("")

\* field_config.default or ""
DefaultOrEmpty(fc) ==
    IF fc.default = NoneV \/ fc.default = StrV("") THEN StrV("") ELSE fc.default

\* "for selector in field_config.selector" of _extract_field, from position
\* i on: the target the loop breaks with, or NoTarget when the loop runs to
\* its else; a query that raises is passed over by the bare except.
RECURSIVE TrySelectors(_, _, _, _)
TrySelectors(element, sels, i, queried) ==
    IF i > Len(sels) THEN [target |-> NoTarget, exhausted |-> TRUE, queried |-> queried]
    ELSE LET t == QuerySelector(element, sels[i])
             q == Append(queried, sels[i])
         IN  IF t.k = "el"
             THEN [target |-> t, exhausted |-> FALSE, queried |-> q]
             ELSE TrySelectors(element, sels, i + 1, q)

\* target.text_content() or "", target.get_attribute(attribute) or ""
ReadAttribute(target, attribute) ==
    LET raw == IF attribute = "text" THEN target.text ELSE target.href
    IN  IF raw = NoneV THEN StrV("") ELSE raw

\* CollectHandler._extract_field: [v, queried], the value of the field and
\* the selectors queried for it, in order
ExtractField(element, fc) ==
    LET found == IF fc.selector.list
                 THEN TrySelectors(element, fc.selector.sels, 1, <<>>)
                 ELSE [target |-> QuerySelector(element, fc.selector.sels[1]),
                       exhausted |-> FALSE, queried |-> <<fc.selector.sels[1]>>]
    IN  IF found.exhausted \/ found.target.k # "el"
        THEN [v |-> DefaultOrEmpty(fc), queried |-> found.queried]
        ELSE [v |-> StrV(Strip(PyStr(ReadAttribute(found.target, fc.attribute)))),
              queried |-> found.queried]

\* a Collect that counts a limit of 0 as a limit
LimitReached_Zero(limit, n) == limit.some /\ n >= limit.v

\* "instruction.limit and len(collected_items) >= instruction.limit"
LimitReached(limit, n) == Truthy(limit) /\ n >= limit.v

\* "for item in items" over one container, from item j on; data is the
\* item_data of an item (field name -> value), queries the selectors queried
\* for each of its fields
RECURSIVE CollectItems(_, _, _, _)
CollectItems(instr, items, j, acc) ==
    IF j > Len(items) \/ LimitReached(instr.limit, Len(acc)) THEN acc
    ELSE CollectItems(instr, items, j + 1,
                      Append(acc, [data |-> [f \in DOMAIN instr.fields |->
                                               ExtractField(items[j], instr.fields[f]).v],
                                   queries |-> [f \in DOMAIN instr.fields |->
                                                  ExtractField(items[j], instr.fields[f]).queried],
                                   from |-> items[j]]))

\* "for container in containers", from container c on: [raised, acc]
RECURSIVE CollectContainers(_, _, _, _)
CollectContainers(instr, containers, c, acc) ==
    IF c > Len(containers) THEN [raised |-> FALSE, acc |-> acc]
    ELSE IF containers[c].err THEN [raised |-> TRUE, acc |-> acc]
    ELSE LET got == CollectItems(instr, containers[c].items, 1, acc)
         IN  IF LimitReached(instr.limit, Len(got))
             THEN [raised |-> FALSE, acc |-> got]
             ELSE CollectContainers(instr, containers, c + 1, got)

\* CollectHandler.execute on a page: ok is the returned bool, stored whether
\* context.collected_data[name] was assigned, items what was assigned
CollectExecute(instr, page) ==
    IF page.err THEN [ok |-> FALSE, stored |-> FALSE, items |-> <<>>]
    ELSE IF page.containers = <<>> THEN [ok |-> TRUE, stored |-> FALSE, items |-> <<>>]
    ELSE LET got == CollectContainers(instr, page.containers, 1, <<>>)
         IN  IF got.raised THEN [ok |-> FALSE, stored |-> FALSE, items |-> <<>>]
             ELSE [ok |-> TRUE, stored |-> TRUE, items |-> got.acc]

(***************************************************************************)
(* Collect in structured mode: JSONPathExtractor and                       *)
(* ScraperPipeline._process_json_collection.                               *)
(*                                                                         *)
(* A JSON value is a dict [t, d], a list [t, l], or a scalar StrV, IntV,   *)
(* NoneV.  A path is given by the parts path.split('.') yields after the   *)
(* leading "$" and "." are removed; a part is a field name (possibly "")   *)
(* followed or not by one array access.                                    *)
(***************************************************************************)
JDict(d) == [t |-> "dict", d |-> d]

JList(l) == [t |-> "list", l |-> l]

\* the array accesses: none, [*], [i], [i:j]
NoAccess == [k |-> "none", i |-> 0, j |-> 0]

Star == [k |-> "star", i |-> 0, j |-> 0]

Index(i) == [k |-> "index", i |-> i, j |-> 0]

Slice(i, j) == [k |-> "slice", i |-> i, j |-> j]

Part(field, access) == [field |-> field, access |-> access]

\* a selector that is one path, and a selector that is a list of paths
PathSelector(parts) == [list |-> FALSE, parts |-> parts, paths |-> <<>>]

PathList(paths) == [list |-> TRUE, parts |-> <<>>, paths |-> paths]

\* what an access that raises leaves: extract turns it into None
Raised == [t |-> "raise", s |-> "raise"]

\* data[start:end] of a list, 0-based, end exclusive
ListSlice(l, i, j) ==
    LET hi == IF j < Len(l) THEN j ELSE Len(l)
    IN  IF i >= hi THEN <<>> ELSE [n \in 1..(hi - i) |-> l[i + n]]

\* the keys of the model's dicts, in the order of the JSON document
KeyOrder == <<"data", "events", "a", "b", "id">>

\* list(data) of a dict: its keys, in document order
DictKeys(d) ==
    LET ks == SelectSeq(KeyOrder, LAMBDA k : k \in DOMAIN d)
    IN  [n \in DOMAIN ks |-> StrV(ks[n])]

\* JSONPathExtractor._handle_array_access: TypeError and IndexError give
\* None; the KeyError of an int key on a dict is raised to extract.  The
\* model hands no str to an array access.
HandleArrayAccess(data, access) ==
    CASE access.k = "star" ->
            IF data.t = "list" THEN data
            ELSE IF data.t = "dict" THEN JList(DictKeys(data.d)) ELSE NoneV
      [] access.k = "slice" ->
            IF data.t = "list" THEN JList(ListSlice(data.l, access.i, access.j))
            ELSE IF data.t = "dict" THEN Raised ELSE NoneV
      [] access.k = "index" ->
            IF data.t = "list"
            THEN IF access.i + 1 \in DOMAIN data.l THEN data.l[access.i + 1] ELSE NoneV
            ELSE IF data.t = "dict" THEN Raised ELSE NoneV

\* current[field]: only a dict that has the key answers; KeyError and
\* TypeError are raised
GetItem(current, field) ==
    IF current.t = "dict" /\ field \in DOMAIN current.d THEN current.d[field] ELSE Raised

\* one step of "for part in parts"
ExtractPart(current, part) ==
    IF part.access.k = "none" THEN GetItem(current, part.field)
    ELSE LET base == IF part.field # "" THEN GetItem(current, part.field) ELSE current
         IN  IF base = Raised THEN Raised ELSE HandleArrayAccess(base, part.access)

RECURSIVE ExtractParts(_, _, _)
ExtractParts(current, parts, i) ==
    IF current = Raised THEN Raised
    ELSE IF i > Len(parts) THEN current
    ELSE ExtractParts(ExtractPart(current, parts[i]), parts, i + 1)

\* the path starts with "[" and ends with "]": the whole of it is handed to
\* _handle_array_access, which reads a path of more than one part as no
\* index at all (ValueError) and returns None
WholeArrayAccess(parts) ==
    /\ parts # <<>>
    /\ parts[1].field = "" /\ parts[1].access.k # "none"
    /\ parts[Len(parts)].access.k # "none"

\* JSONPathExtractor.extract: [raised, v].  A list selector has no
\* startswith: the AttributeError is not among the errors extract catches.
Extract(data, selector) ==
    IF selector.list THEN [raised |-> TRUE, v |-> NoneV]
    ELSE LET parts == selector.parts
             got == IF parts = <<>> THEN data
                    ELSE IF WholeArrayAccess(parts)
                    THEN IF Len(parts) = 1 THEN HandleArrayAccess(data, parts[1].access)
                         ELSE NoneV
                    ELSE ExtractParts(data, parts, 1)
         IN  [raised |-> FALSE, v |-> IF got = Raised THEN NoneV ELSE got]

\* truth value of a JSON value: None, 0, "", [] and {} are false
JTruthy(v) ==
    CASE v.t = "NoneType" -> FALSE
      [] v.t = "list" -> v.l # <<>>
      [] v.t = "dict" -> DOMAIN v.d # {}
      [] v.t = "int" -> v.s # "0"
      [] v.t = "str" -> v.s # ""

\* ProcessorRegistry.process_value as a function: the steps from i on
RECURSIVE ProcessValue(_, _, _)
ProcessValue(cur, processors, i) ==
    IF i > Len(processors) THEN cur
    ELSE LET name == ResolveProcessor(processors[i])
         IN  IF name = "" THEN ProcessValue(cur, processors, i + 1)
             ELSE LET res == Process(name, cur, ProcessorArgs(processors[i]))
                  IN  ProcessValue(ValueAfterProcessor(cur, res), processors,
                                   AfterProcessor(i, res.threw, Len(processors)))

\* the value _process_json_collection stores for one field of one item
JsonField(item, fc) ==
    LET got == Extract(item, fc.selector)
    IN  IF got.raised THEN DefaultOrEmpty(fc)
        ELSE LET value == IF fc.processors # <<>> /\ got.v # NoneV
                          THEN ProcessValue(got.v, fc.processors, 1)
                          ELSE got.v
             IN  IF value # NoneV THEN value ELSE DefaultOrEmpty(fc)

\* "for item_data in items_data", from item j on
RECURSIVE JsonItems(_, _, _, _)
JsonItems(instr, items, j, acc) ==
    IF j > Len(items) \/ LimitReached(instr.limit, Len(acc)) THEN acc
    ELSE JsonItems(instr, items, j + 1,
                   Append(acc, [data |-> [f \in DOMAIN instr.fields |->
                                            JsonField(items[j], instr.fields[f])],
                                from |-> items[j]]))

\* items_data of _process_json_collection: a non-list becomes [x], None []
ItemsData(container_data, item_selector) ==
    LET got == Extract(container_data, item_selector).v
    IN  IF got.t = "list" THEN got.l ELSE IF got = NoneV THEN <<>> ELSE <<got>>

\* ScraperPipeline._process_json_collection: stored is whether
\* result.events was extended, items what it was extended with
ProcessJsonCollection(instr, json_data) ==
    LET container_data == Extract(json_data, instr.container_selector).v
    IN  IF ~JTruthy(container_data) THEN [ok |-> TRUE, stored |-> FALSE, items |-> <<>>]
        ELSE [ok |-> TRUE, stored |-> TRUE,
              items |-> JsonItems(instr, ItemsData(container_data, instr.item_selector),
                                  1, <<>>)]

(***************************************************************************)
(* Instructions (config_schema.py).  Every instruction is a record with    *)
(* the same fields; an instruction type reads its own.  id stands for      *)
(* id(instruction): one number per instruction object of a configuration.  *)
(***************************************************************************)
\* WaitCondition; NoCondition is None
NoCondition == [type |-> "none"]

Condition(type) == [type |-> type]

Blank ==
    [type |-> "", id |-> 0,
     optional |-> FALSE, all_matching |-> FALSE, wait_after |-> NoCondition,
     condition |-> NoCondition,
     iterator |-> "", max_iterations |-> NoInt, break_condition |-> NoCondition,
     instructions |-> <<>>, next_selector |-> FALSE, dropdown_selector |-> FALSE,
     skip_first_option |-> FALSE, count |-> NoInt, while_condition |-> NoCondition,
     then_instructions |-> <<>>, else_instructions |-> <<>>,
     name |-> "", limit |-> NoInt, fields |-> <<>>,
     container_selector |-> "", item_selector |-> "",
     given |-> "", direction |-> "", selector |-> FALSE]

ClickInstruction(id, optional, all_matching, wait_after) ==
    [Blank EXCEPT !.type = "click", !.id = id, !.optional = optional,
                  !.all_matching = all_matching, !.wait_after = wait_after]

WaitInstruction(id, condition) ==
    [Blank EXCEPT !.type = "wait", !.id = id, !.condition = condition]

NavigateInstruction(id, wait_after) ==
    [Blank EXCEPT !.type = "navigate", !.id = id, !.wait_after = wait_after]

InputInstruction(id) == [Blank EXCEPT !.type = "input", !.id = id]

\* given: which of value, text, index is not None ("" when none is)
SelectInstruction(id, given) ==
    [Blank EXCEPT !.type = "select", !.id = id, !.given = given]

\* selector: whether a selector is given
ScrollInstruction(id, direction, selector) ==
    [Blank EXCEPT !.type = "scroll", !.id = id, !.direction = direction,
                  !.selector = selector]

CollectInstruction(id, name, limit, fields, container_selector, item_selector) ==
    [Blank EXCEPT !.type = "collect", !.id = id, !.name = name, !.limit = limit,
                  !.fields = fields, !.container_selector = container_selector,
                  !.item_selector = item_selector]

IfInstruction(id, condition, then_instructions, else_instructions) ==
    [Blank EXCEPT !.type = "if", !.id = id, !.condition = condition,
                  !.then_instructions = then_instructions,
                  !.else_instructions = else_instructions]

PaginationLoop(id, max_iterations, next_selector, break_condition, instructions) ==
    [Blank EXCEPT !.type = "loop", !.id = id, !.iterator = "pagination",
                  !.max_iterations = max_iterations, !.next_selector = next_selector,
                  !.break_condition = break_condition, !.instructions = instructions]

DropdownLoop(id, max_iterations, dropdown_selector, skip_first_option, instructions) ==
    [Blank EXCEPT !.type = "loop", !.id = id, !.iterator = "dropdown_options",
                  !.max_iterations = max_iterations,
                  !.dropdown_selector = dropdown_selector,
                  !.skip_first_option = skip_first_option, !.instructions = instructions]

CountLoop(id, max_iterations, count, instructions) ==
    [Blank EXCEPT !.type = "loop", !.id = id, !.iterator = "count",
                  !.max_iterations = max_iterations, !.count = count,
                  !.instructions = instructions]

WhileLoop(id, max_iterations, while_condition, instructions) ==
    [Blank EXCEPT !.type = "loop", !.id = id, !.iterator = "while",
                  !.max_iterations = max_iterations,
                  !.while_condition = while_condition, !.instructions = instructions]

\* an instruction whose handler was added with register_handler
CustomInstruction(id) == [Blank EXCEPT !.type = "custom", !.id = id]

\* an instruction whose type has no entry in InstructionExecutor.handlers
UnhandledInstruction(id) == [Blank EXCEPT !.type = "unhandled", !.id = id]

\* the keys of InstructionExecutor.handlers
HandledTypes ==
    {"click", "wait", "loop", "if", "collect", "navigate", "input", "select",
     "scroll", "custom"}

(***************************************************************************)
(* What the page does when a handler drives it.                            *)
(***************************************************************************)
\* most elements one query_selector_all of a condition or a click matches
MaxMatches == 2

\* an evaluation of a condition: the elements the selector matches, whether
\* the awaited thing (a visible element, the substring in the URL) is there,
\* and whether the page raised
ConditionObs == [n : 0..MaxMatches, there : BOOLEAN, err : BOOLEAN]

\* a condition evaluated without the except clauses that turn an error of
\* the page into False
HandleWaitCondition_Unguarded(condition, obs) ==
    CASE condition.type = "timeout" -> TRUE
      [] condition.type = "selector" -> obs.there
      [] condition.type = "url_contains" -> obs.there
      [] condition.type = "element_count" -> obs.n > 0
      [] OTHER -> FALSE

\* InstructionHandler.handle_wait_condition
HandleWaitCondition(condition, obs) ==
    CASE condition.type = "timeout" -> TRUE
      [] condition.type = "selector" -> ~obs.err /\ obs.there
      [] condition.type = "url_contains" -> ~obs.err /\ obs.there
      [] condition.type = "element_count" -> ~obs.err /\ obs.n > 0
      [] OTHER -> FALSE

\* what a page operation does: it succeeds, it finds nothing (an empty list,
\* None), it times out (PlaywrightTimeoutError), it raises another error
PageObs == {"ok", "nothing", "timeout", "error"}

\* ClickHandler.execute.  With all_matching, "nothing" is an empty list of
\* elements, "timeout" a click on a found element that fails (logged by the
\* inner except) and "error" a query_selector_all that raises; a single
\* click that finds nothing times out.
ClickHandler(instr, obs) ==
    IF instr.all_matching
    THEN CASE obs = "error" -> ~instr.optional
           [] obs = "nothing" -> instr.optional
           [] obs \in {"ok", "timeout"} -> TRUE
    ELSE CASE obs = "error" -> ~instr.optional
           [] obs \in {"timeout", "nothing"} -> instr.optional
           [] obs = "ok" -> TRUE

\* NavigateHandler.execute
NavigateHandler(instr, obs) == obs = "ok"

\* InputHandler.execute
InputHandler(instr, obs) == obs = "ok"

\* SelectHandler.execute
SelectHandler(instr, obs) == instr.given # "" /\ obs = "ok"

\* ScrollHandler.execute: only "to_element" with a selector looks for an
\* element; "to_element" without one falls through to "return True"
ScrollHandler(instr, obs) ==
    IF instr.direction = "to_element" /\ instr.selector THEN obs = "ok"
    ELSE IF instr.direction \in {"down", "up"} THEN obs \in {"ok", "nothing"}
    ELSE TRUE

AsOutcome(b) == IF b THEN "true" ELSE "false"

\* what the execute of a handler ends with, for the instructions that nest
\* no other: "true", "false", or "raised" when an exception leaves it.  The
\* handlers of the program catch Exception themselves; a handler added with
\* register_handler ends as it likes.
Execute(instr, obs, cobs, custom) ==
    CASE instr.type = "click" -> AsOutcome(ClickHandler(instr, obs))
      [] instr.type = "wait" -> AsOutcome(HandleWaitCondition(instr.condition, cobs))
      [] instr.type = "navigate" -> AsOutcome(NavigateHandler(instr, obs))
      [] instr.type = "input" -> AsOutcome(InputHandler(instr, obs))
      [] instr.type = "select" -> AsOutcome(SelectHandler(instr, obs))
      [] instr.type = "scroll" -> AsOutcome(ScrollHandler(instr, obs))
      [] OTHER -> custom

\* an executor that lets the exception of a handler through
ExecuteInstruction_NoExcept(instr, outcome) ==
    IF instr.type \notin HandledTypes THEN "false" ELSE outcome

\* InstructionExecutor.execute_instruction, given how the handler ended
ExecuteInstruction(instr, outcome) ==
    IF instr.type \notin HandledTypes THEN "false"
    ELSE IF outcome = "raised" THEN "false"
    ELSE outcome

\* a sequence that stops at the first instruction that fails
NextPos_StopOnFalse(pos, success, len) == IF success THEN pos + 1 ELSE len + 1

\* "for instruction in instructions": the position after the instruction at
\* pos returned success
NextPos(pos, success, len) == pos + 1

(***************************************************************************)
(* SpecCollect: one Collect, in either mode, over every page and payload   *)
(* of the bounds.                                                          *)
(***************************************************************************)
\* the elements an item selector may match
DomElements ==
    { (".a" :> Target(StrV(" Ab "), StrV("AB")) @@ ".b" :> Target(StrV("ab"), NoneV)),
      (".a" :> NoTarget @@ ".b" :> Target(StrV(" ab "), StrV(" 12 "))),
      (".a" :> RaisingTarget @@ ".b" :> Target(NoneV, StrV("AB"))),
      (".a" :> NoTarget @@ ".b" :> RaisingTarget) }

\* the fields of a Collect in DOM mode
DomFieldSets ==
    { ("title" :> FieldConfig(CssList(<<".a", ".b">>), "text", NoneV, <<>>)
         @@ "link" :> FieldConfig(CssSelector(".b"), "href", StrV("AB"), <<>>)),
      ("title" :> FieldConfig(CssSelector(".a"), "text", StrV(" Ab "), <<StepStr("uppercase")>>)
         @@ "link" :> FieldConfig(CssList(<<".b", ".a">>), "href", StrV(""), <<>>)) }

\* the items of a payload
JsonElements ==
    { JDict("a" :> StrV(" Ab ") @@ "b" :> StrV("AB") @@ "id" :> IntV("12")),
      JDict("b" :> StrV(" ab ") @@ "id" :> IntV("0")),
      JDict("a" :> NoneV @@ "b" :> StrV("ab") @@ "id" :> IntV("12")),
      StrV("Ab") }

Field(name) == PathSelector(<<Part(name, NoAccess)>>)

\* the fields of a Collect in structured mode
JsonFieldSets ==
    { ("title" :> FieldConfig(PathList(<<Field("a"), Field("b")>>), "text", NoneV, <<>>)
         @@ "link" :> FieldConfig(Field("a"), "text", StrV(" Ab "),
                                  <<StepStr("trim"), StepObject("uppercase", NoArgs)>>)),
      ("title" :> FieldConfig(Field("b"), "text", StrV(""), <<StepStr("uppercase")>>)
         @@ "link" :> FieldConfig(PathSelector(<<Part("a", NoAccess), Part("x", NoAccess)>>),
                                  "text", StrV("AB"), <<>>)) }

\* container_selector and item_selector of a Collect in structured mode
JsonSelectorPairs ==
    { <<PathSelector(<<Part("data", NoAccess), Part("events", NoAccess)>>), PathSelector(<<>>)>>,
      <<PathSelector(<<Part("data", NoAccess)>>), Field("events")>>,
      <<PathSelector(<<Part("data", NoAccess), Part("events", NoAccess)>>),
        PathSelector(<<Part("", Slice(0, 2))>>)>>,
      <<PathSelector(<<Part("data", NoAccess), Part("events", NoAccess)>>),
        PathSelector(<<Part("", Star)>>)>>,
      <<PathSelector(<<Part("data", NoAccess), Part("events", Index(0))>>), PathSelector(<<>>)>>,
      <<PathSelector(<<Part("data", NoAccess), Part("missing", NoAccess)>>), PathSelector(<<>>)>> }

Limits == {NoInt} \cup { SomeInt(n) : n \in 0..MaxLimit }

SeqsUpTo(S, n) == UNION { [1..k -> S] : k \in 0..n }

RECURSIVE Sum(_, _)
Sum(z, i) == IF i > Len(z) THEN 0 ELSE z[i] + Sum(z, i + 1)

\* the items s shared out as z says; the query of container errAt raises
Page(s, z, errAt) ==
    [err |-> FALSE,
     containers |-> [c \in DOMAIN z |->
        [err |-> c = errAt,
         items |-> [n \in 1..z[c] |-> s[Sum(SubSeq(z, 1, c - 1), 1) + n]]]]]

\* a page whose container query raises
BrokenPage == [err |-> TRUE, containers |-> <<>>]

DomPages ==
    {BrokenPage} \cup
    { Page(sz[1], sz[2], e) :
        sz \in { y \in SeqsUpTo(DomElements, MaxItems) \X SeqsUpTo(0..MaxItems, MaxContainers) :
                   Sum(y[2], 1) = Len(y[1]) },
        e \in 0..MaxContainers }

Payload(items) == JDict("data" :> JDict("events" :> JList(items)))

JsonPayloads == { Payload(s) : s \in SeqsUpTo(JsonElements, MaxItems) }

InitCollect ==
    /\ IdleProc
    /\ IdleRun
    /\ IdleHandler
    /\ IdlePersist
    /\ IdleShared
    /\ col_pc = "start"
    /\ col_res = <<>>
    /\ \/ /\ col_mode = "dom"
          /\ col_src \in DomPages
          /\ col_instr \in { [limit |-> l, fields |-> f] : l \in Limits, f \in DomFieldSets }
       \/ /\ col_mode = "json"
          /\ col_src \in JsonPayloads
          /\ col_instr \in { [limit |-> l, fields |-> f, container_selector |-> p[1],
                               item_selector |-> p[2]] :
                                l \in Limits, f \in JsonFieldSets, p \in JsonSelectorPairs }

\* CollectHandler.execute
CollectDom ==
    /\ col_pc = "start" /\ col_mode = "dom"
    /\ col_res' = CollectExecute(col_instr, col_src)
    /\ col_pc' = "done"
    /\ UNCHANGED <<col_mode, col_instr, col_src, procVars, runVars, handlerVars, persistVars, sharedVars>>

\* ScraperPipeline._process_json_collection
CollectJson ==
    /\ col_pc = "start" /\ col_mode = "json"
    /\ col_res' = ProcessJsonCollection(col_instr, col_src)
    /\ col_pc' = "done"
    /\ UNCHANGED <<col_mode, col_instr, col_src, procVars, runVars, handlerVars, persistVars, sharedVars>>

NextCollect == CollectDom \/ CollectJson

SpecCollect == InitCollect /\ [][NextCollect]_vars

(***************************************************************************)
(* Properties of Collect (SpecCollect).                                    *)
(***************************************************************************)
RECURSIVE Flatten(_, _)
Flatten(containers, c) ==
    IF c > Len(containers) THEN <<>>
    ELSE containers[c].items \o Flatten(containers, c + 1)

\* the available items of the finished Collect, in document order: the items
\* of all containers of the page, or the items the item path yields
AvailableItems ==
    IF col_mode = "dom" THEN Flatten(col_src.containers, 1)
    ELSE ItemsData(Extract(col_src, col_instr.container_selector).v,
                   col_instr.item_selector)

Min(a, b) == IF a < b THEN a ELSE b

\* the first n available items, one record each, in document order
ProducedFirst(n) ==
    /\ Len(col_res.items) = n
    /\ \A k \in 1..n : col_res.items[k].from = AvailableItems[k]

\* C7 as stated: a Collect with limit = N, for every N >= 0 and in both
\* modes, produces min(N, available items) records, the items counted
\* across all containers and taken in document order.
C7_LimitCaps ==
    (col_pc = "done" /\ col_res.ok /\ col_instr.limit.some) =>
        ProducedFirst(Min(col_instr.limit.v, Len(AvailableItems)))

\* what the code does: a limit N >= 1 caps the records at min(N, available);
\* a limit of 0, like no limit, produces a record for every available item
C7_LimitOfZeroIsNoLimit ==
    (col_pc = "done" /\ col_res.ok) =>
        IF Truthy(col_instr.limit)
        THEN ProducedFirst(Min(col_instr.limit.v, Len(AvailableItems)))
        ELSE ProducedFirst(Len(AvailableItems))

\* candidate i of the field's selector(s) yields a match on the item
Resolves(item, fc, i) ==
    IF col_mode = "dom" THEN QuerySelector(item, fc.selector.sels[i]).k = "el"
    ELSE IF fc.selector.list THEN Extract(item, fc.selector.paths[i]).v # NoneV
    ELSE Extract(item, fc.selector).v # NoneV

\* the positions of the candidates of the field's selector(s)
Candidates(fc) ==
    IF col_mode = "dom" THEN DOMAIN fc.selector.sels
    ELSE IF fc.selector.list THEN DOMAIN fc.selector.paths ELSE {1}

\* C8: a field whose selector(s) resolve to nothing on an item yields
\* exactly its configured default in the record (the empty string when no
\* default is configured), in both modes; the record is still produced with
\* all its fields, and the Collect fails only when a query of the container
\* or the items raised.
C8_UnresolvedYieldsDefault ==
    col_pc = "done" =>
        /\ ~col_res.ok =>
              /\ col_mode = "dom"
              /\ col_src.err \/ \E c \in DOMAIN col_src.containers : col_src.containers[c].err
        /\ \A k \in DOMAIN col_res.items :
              /\ DOMAIN col_res.items[k].data = DOMAIN col_instr.fields
              /\ \A f \in DOMAIN col_instr.fields :
                    LET fc == col_instr.fields[f]
                    IN  (\A i \in Candidates(fc) : ~Resolves(col_res.items[k].from, fc, i))
                        => col_res.items[k].data[f] =
                             IF fc.default = NoneV THEN StrV("") ELSE fc.default

\* a finished Collect, in structured mode, with a record one of whose fields
\* resolved to nothing and holds its configured, non-empty default while
\* the other field of the record was extracted
C8_Witness ==
    /\ col_pc = "done" /\ col_mode = "json" /\ col_res.stored
    /\ \E k \in DOMAIN col_res.items : \E f, g \in DOMAIN col_instr.fields :
          LET fc == col_instr.fields[f]
              gc == col_instr.fields[g]
              item == col_res.items[k].from
          IN  /\ \A i \in Candidates(fc) : ~Resolves(item, fc, i)
              /\ fc.default \notin {NoneV, StrV("")}
              /\ col_res.items[k].data[f] = fc.default
              /\ \E i \in Candidates(gc) : Resolves(item, gc, i)
              /\ col_res.items[k].data[g] # gc.default

\* the value candidate i of the field gives on the item: the attribute of
\* the matched element, stripped, or the extracted value, processed
CandidateValue(item, fc, i) ==
    IF col_mode = "dom"
    THEN StrV(Strip(PyStr(ReadAttribute(QuerySelector(item, fc.selector.sels[i]),
                                       fc.attribute))))
    ELSE ProcessValue(Extract(item, fc.selector.paths[i]).v, fc.processors, 1)

\* C9 as stated: a field declared with a list of candidate selectors takes
\* its value from the first candidate, in list order, that yields a match,
\* in both modes; in DOM mode the candidates queried are those up to it.
C9_FirstMatchWins ==
    col_pc = "done" =>
        \A k \in DOMAIN col_res.items : \A f \in DOMAIN col_instr.fields :
            LET fc == col_instr.fields[f]
                item == col_res.items[k].from
                hits == { i \in Candidates(fc) : Resolves(item, fc, i) }
            IN  (fc.selector.list /\ hits # {}) =>
                    LET first == CHOOSE i \in hits : \A j \in hits : i <= j
                    IN  /\ col_res.items[k].data[f] = CandidateValue(item, fc, first)
                        /\ col_mode = "dom" =>
                              col_res.items[k].queries[f] = SubSeq(fc.selector.sels, 1, first)

\* what the code does: C9 holds in DOM mode
C9_FirstMatchWinsInDom == col_mode = "dom" => C9_FirstMatchWins

\* the raw value a field with one selector extracts from an item: the
\* attribute of the matched element (as DOM mode keeps it, stripped), or the
\* value at the path
RawValue(item, fc) ==
    IF col_mode = "dom"
    THEN StrV(Strip(PyStr(ReadAttribute(QuerySelector(item, fc.selector.sels[1]),
                                       fc.attribute))))
    ELSE Extract(item, fc.selector).v

\* the chain as declared: a step given as name + argument map counts as one
AsDeclared(chain) ==
    [i \in DOMAIN chain |->
        IF chain[i].form = "object" THEN StepDict(chain[i].name, chain[i].args)
        ELSE chain[i]]

\* the fields of a record whose one selector extracted a raw value
Extracted(k) ==
    { f \in DOMAIN col_instr.fields :
        /\ ~col_instr.fields[f].selector.list
        /\ Resolves(col_res.items[k].from, col_instr.fields[f], 1) }

\* C11 as stated: in both modes, the value stored for a field whose raw
\* value was extracted is the raw value passed through every step of the
\* declared chain, in declared order, each step with its arguments, the
\* steps declared as name + argument map included.
C11_ChainApplied ==
    col_pc = "done" =>
        \A k \in DOMAIN col_res.items : \A f \in Extracted(k) :
            col_res.items[k].data[f] =
                ProcessValue(RawValue(col_res.items[k].from, col_instr.fields[f]),
                             AsDeclared(col_instr.fields[f].processors), 1)

\* what the code does: DOM mode stores the stripped raw value and applies
\* no step; structured mode applies the steps given as bare names and
\* passes over the steps given as name + argument map objects
C11_ChainAppliedToNamesInJson ==
    col_pc = "done" =>
        \A k \in DOMAIN col_res.items : \A f \in Extracted(k) :
            col_res.items[k].data[f] =
                IF col_mode = "dom"
                THEN RawValue(col_res.items[k].from, col_instr.fields[f])
                ELSE ProcessValue(RawValue(col_res.items[k].from, col_instr.fields[f]),
                                  col_instr.fields[f].processors, 1)

(***************************************************************************)
(* Properties of process_value (SpecProc).                                 *)
(***************************************************************************)
\* the positions of the chain whose config names a registered processor
CallablePositions == { i \in DOMAIN pr_chain : ResolveProcessor(pr_chain[i]) # "" }

\* the value a logged call leaves behind
LeftBy(call) == IF call.threw THEN call.inp ELSE call.out

\* C10 as stated: when a step of a processor chain throws, the chain
\* short-circuits: the throwing call is the last call made, and the result
\* is the value that was current before it.
C10_ShortCircuits ==
    pr_pc = "done" =>
        \A k \in DOMAIN pr_calls :
            pr_calls[k].threw => (k = Len(pr_calls) /\ pr_out = pr_calls[k].inp)

\* C10 amended: a step that throws is skipped and the chain goes on. Every
\* step that names a registered processor is called once, in chain order;
\* each call receives the value left by the call before it (the raw value
\* for the first), a throwing call leaving the value it received; the result
\* is the value left by the last call.
C10_SkipsThrowingStep ==
    pr_pc = "done" =>
        /\ Len(pr_calls) = Cardinality(CallablePositions)
        /\ \A k \in DOMAIN pr_calls : pr_calls[k].idx \in CallablePositions
        /\ \A k \in DOMAIN pr_calls :
              /\ k > 1 => pr_calls[k - 1].idx < pr_calls[k].idx
              /\ pr_calls[k].inp = IF k = 1 THEN pr_value ELSE LeftBy(pr_calls[k - 1])
        /\ pr_out = IF pr_calls = <<>> THEN pr_value
                    ELSE LeftBy(pr_calls[Len(pr_calls)])

\* a finished chain in which a step succeeded and changed the value, the next
\* step threw, and a step after it was still applied and changed the value
C10_Witness ==
    /\ pr_pc = "done"
    /\ \E k \in DOMAIN pr_calls :
          /\ k > 1 /\ k < Len(pr_calls)
          /\ pr_calls[k].threw
          /\ ~pr_calls[k - 1].threw /\ pr_calls[k - 1].out # pr_calls[k - 1].inp
          /\ ~pr_calls[k + 1].threw /\ pr_calls[k + 1].out # pr_calls[k + 1].inp

(***************************************************************************)
(* Spec: one ScraperPipeline.run on a new pipeline.                        *)
(*                                                                         *)
(* The instructions of an interactive run are interpreted with a stack of  *)
(* frames, one per sequence being run: the top-level list, the body of a   *)
(* loop, the branch of an If.  A frame is                                  *)
(*   kind   "top" | "loop" | "if"                                          *)
(*   instr  the Loop or If instruction (Blank for "top")                   *)
(*   seq    the sequence                                                   *)
(*   phase  "head": a loop about to test whether it goes on                *)
(*          "body": the sequence is being run                              *)
(*   pos    the position in seq of the next instruction                    *)
(*   i, n   the index of a count or dropdown loop, and its end             *)
(*   met    history: what the condition of the If evaluated to             *)
(*   ran    history: the positions run in this pass, with how the handler  *)
(*          ended and what execute_instruction returned                    *)
(*   runs   history: the passes over the body begun since the loop began   *)
(*   clicks history: the clicks made on the next control of a pagination    *)
(*          loop since the loop began                                      *)
(***************************************************************************)
\* most CancelledError delivered to the task of a run
MaxCancels == 1

\* largest max_iterations of a configuration
MaxIter == 2

\* largest count of a count loop
MaxCount == 3

\* most options a dropdown has
MaxOptions == 3

Frame(kind, instr, seq, phase, i, n) ==
    [kind |-> kind, instr |-> instr, seq |-> seq, phase |-> phase, pos |-> 1,
     i |-> i, n |-> n, met |-> FALSE, ran |-> <<>>, runs |-> 0, clicks |-> 0]

\* the innermost frame
Top == stack[Len(stack)]

\* the instruction the innermost sequence is at
Current == Top.seq[Top.pos]

AtInstruction(types) ==
    /\ pc = "exec"
    /\ Top.phase = "body"
    /\ Top.pos <= Len(Top.seq)
    /\ Current.type \in types

AtEnd(kind) ==
    /\ pc = "exec"
    /\ Top.kind = kind
    /\ Top.phase = "body"
    /\ Top.pos > Len(Top.seq)

\* d[k] = v on a dict
SetItem(d, k, v) == [x \in DOMAIN d \cup {k} |-> IF x = k THEN v ELSE d[x]]

\* execute_instruction(instr) ends, its handler having ended with outcome;
\* callers is the stack below the call, and the for loop of the caller moves
\* on from the instruction it is at
Returns(callers, instr, outcome) ==
    LET r == ExecuteInstruction(instr, outcome)
        how == IF instr.type \in HandledTypes THEN outcome ELSE "no handler"
        Advance(f) ==
            [f EXCEPT !.pos = NextPos(f.pos, r = "true", Len(f.seq)),
                      !.ran = Append(@, [pos |-> f.pos, how |-> how, result |-> r])]
    IN  /\ stack' = [callers EXCEPT ![Len(callers)] = Advance(@)]
        /\ last' = [type |-> instr.type, id |-> instr.id, how |-> how, result |-> r]

\* the stack without its innermost frame
Callers == SubSeq(stack, 1, Len(stack) - 1)

\* execute_instruction of an instruction that nests no other and collects
\* nothing
ExecSimple ==
    /\ AtInstruction({"click", "wait", "navigate", "input", "select", "scroll", "custom",
                      "unhandled"})
    /\ \E obs \in PageObs, cobs \in ConditionObs, custom \in {"true", "false", "raised"} :
          Returns(stack, Current, Execute(Current, obs, cobs, custom))
    /\ UNCHANGED <<procVars, colVars, handlerVars, persistVars, sharedVars>>
    /\ UNCHANGED loop_log
    /\ UNCHANGED <<pc, config, fetcher, session, result, exc, loop_counters, variables,
                   collected_data, calls>>

\* context.collected_data[instruction.name] = collected_items; at is the
\* place of the key name in the dict, 0 when it is not a key
StoreCollection(cd, name, items) ==
    LET at == IF \E k \in DOMAIN cd : cd[k].name = name
              THEN CHOOSE k \in DOMAIN cd : cd[k].name = name
              ELSE 0
    IN  IF at = 0 THEN Append(cd, [name |-> name, items |-> items])
        ELSE [cd EXCEPT ![at].items = items]

\* the item_data dicts of what a Collect gathered
Records(acc) == [a \in DOMAIN acc |-> acc[a].data]

\* a CancelledError delivered at a query of a selector list is taken by the
\* bare except of _extract_field as a query that raised
SwallowsCancel(instr, page) ==
    /\ ~page.err
    /\ LET acc == CollectContainers(instr, page.containers, 1, <<>>).acc
       IN  \E a \in DOMAIN acc, f \in DOMAIN instr.fields :
              /\ instr.fields[f].selector.list
              /\ \E k \in DOMAIN acc[a].queries[f] :
                    acc[a].from[acc[a].queries[f][k]].k = "raise"

\* execute_instruction of a Collect, on a page of at most one container and
\* one item
ExecCollect ==
    /\ AtInstruction({"collect"})
    /\ \E page \in { p \in DomPages :
                        /\ Len(p.containers) <= 1
                        /\ \A c \in DOMAIN p.containers : Len(p.containers[c].items) <= 1 },
          swallow \in BOOLEAN :
          LET r == CollectExecute(Current, page)
          IN  /\ swallow => calls.cancels < MaxCancels /\ SwallowsCancel(Current, page)
              /\ calls' = IF swallow THEN [calls EXCEPT !.cancels = @ + 1] ELSE calls
              /\ collected_data' =
                    IF r.stored THEN StoreCollection(collected_data, Current.name, Records(r.items))
                    ELSE collected_data
              /\ Returns(stack, Current, AsOutcome(r.ok))
    /\ UNCHANGED <<procVars, colVars, handlerVars, persistVars, sharedVars>>
    /\ UNCHANGED loop_log
    /\ UNCHANGED <<pc, config, fetcher, session, result, exc, loop_counters, variables>>

\* an If that runs its else branch after its then branch
Branch_Both(instr, condition_met) ==
    IF condition_met THEN instr.then_instructions \o instr.else_instructions
    ELSE instr.else_instructions

\* the instructions IfHandler.execute runs, given condition_met
Branch(instr, condition_met) ==
    IF condition_met THEN instr.then_instructions ELSE instr.else_instructions

\* IfHandler.execute up to the branch
EnterIf ==
    /\ AtInstruction({"if"})
    /\ \E cobs \in ConditionObs :
          LET condition_met == HandleWaitCondition(Current.condition, cobs)
          IN  stack' = Append(stack,
                         [Frame("if", Current, Branch(Current, condition_met), "body", 0, 0)
                            EXCEPT !.met = condition_met])
    /\ UNCHANGED <<procVars, colVars, handlerVars, persistVars, sharedVars>>
    /\ UNCHANGED loop_log
    /\ UNCHANGED <<pc, config, fetcher, session, result, exc, loop_counters, variables,
                   collected_data, last, calls>>

\* IfHandler.execute after the branch: return True
ExitIf ==
    /\ AtEnd("if")
    /\ Returns(Callers, Top.instr, "true")
    /\ UNCHANGED <<procVars, colVars, handlerVars, persistVars, sharedVars>>
    /\ UNCHANGED loop_log
    /\ UNCHANGED <<pc, config, fetcher, session, result, exc, loop_counters, variables,
                   collected_data, calls>>

\* loops that keep their count under one key
LoopId_Shared(instr) == 0

\* loop_id = f"loop_{id(instruction)}": the key of the counter of a loop; an
\* instruction object is known by its id
LoopId(instr) == instr.id

\* a loop that lets the counter reach max_iterations and goes round once more
UnderCap_OneMore(counter, max_iterations) == counter <= max_iterations.v

\* "context.loop_counters[loop_id] < instruction.max_iterations", the
\* negation of the ">=" that breaks the dropdown and the count loop
UnderCap(counter, max_iterations) == counter < max_iterations.v

\* a dropdown loop that starts at the first option whatever skip_first_option
LoopBegin_NoSkip(instr, options) ==
    LET Refuse == [enter |-> FALSE, outcome |-> "false", i |-> 0, n |-> 0]
        Enter(i, n) == [enter |-> TRUE, outcome |-> "", i |-> i, n |-> n]
    IN  CASE instr.iterator = "pagination" ->
                IF instr.next_selector THEN Enter(0, 0) ELSE Refuse
          [] instr.iterator = "dropdown_options" ->
                IF ~instr.dropdown_selector \/ options.raised THEN Refuse
                ELSE Enter(0, options.n)
          [] instr.iterator = "count" ->
                IF Truthy(instr.count) THEN Enter(0, instr.count.v) ELSE Refuse
          [] instr.iterator = "while" ->
                IF instr.while_condition # NoCondition THEN Enter(0, 0) ELSE Refuse
          [] OTHER -> Refuse

\* LoopHandler.execute up to the first test of the loop: whether the loop is
\* entered, what is returned when it is not, and the index it starts at
LoopBegin(instr, options) ==
    LET Refuse == [enter |-> FALSE, outcome |-> "false", i |-> 0, n |-> 0]
        Enter(i, n) == [enter |-> TRUE, outcome |-> "", i |-> i, n |-> n]
    IN  CASE instr.iterator = "pagination" ->
                IF instr.next_selector THEN Enter(0, 0) ELSE Refuse
          [] instr.iterator = "dropdown_options" ->
                IF ~instr.dropdown_selector \/ options.raised THEN Refuse
                ELSE Enter(IF instr.skip_first_option THEN 1 ELSE 0, options.n)
          [] instr.iterator = "count" ->
                IF Truthy(instr.count) THEN Enter(0, instr.count.v) ELSE Refuse
          [] instr.iterator = "while" ->
                IF instr.while_condition # NoCondition THEN Enter(0, 0) ELSE Refuse
          [] OTHER -> Refuse

\* execute_instruction of a Loop, up to the first test of the loop; the
\* "<option>" query of a dropdown loop raises or gives so many options
EnterLoop ==
    /\ AtInstruction({"loop"})
    /\ loop_counters' = SetItem(loop_counters, LoopId(Current), 0)
    /\ \E options \in {[raised |-> TRUE, n |-> 0]}
                       \cup { [raised |-> FALSE, n |-> n] : n \in 0..MaxOptions } :
          LET begin == LoopBegin(Current, options)
          IN  IF begin.enter
              THEN /\ stack' = Append(stack, Frame("loop", Current, Current.instructions,
                                                   "head", begin.i, begin.n))
                   /\ UNCHANGED last
              ELSE Returns(stack, Current, begin.outcome)
    /\ UNCHANGED <<procVars, colVars, handlerVars, persistVars, sharedVars>>
    /\ UNCHANGED loop_log
    /\ UNCHANGED <<pc, config, fetcher, session, result, exc, variables, collected_data,
                   calls>>

\* the evaluation of while_condition that the test of a while loop makes:
\* none once the counter is at the cap
WhileOps(f, counter, cobs) ==
    IF /\ f.instr.iterator = "while"
       /\ f.instr.max_iterations.some
       /\ UnderCap(counter, f.instr.max_iterations)
    THEN IF HandleWaitCondition(f.instr.while_condition, cobs)
         THEN <<"while_condition true">>
         ELSE <<"while_condition false">>
    ELSE <<>>

\* a while loop that makes its passes whatever while_condition evaluates to
LoopTest_IgnoresWhile(f, counter, cobs, oobs) ==
    LET instr == f.instr
        Capped == IF ~instr.max_iterations.some THEN "false"
                  ELSE IF UnderCap(counter, instr.max_iterations) THEN "body"
                  ELSE "true"
    IN  CASE instr.iterator = "pagination" -> Capped
          [] instr.iterator = "dropdown_options" ->
                IF f.i >= f.n THEN "true"
                ELSE IF Capped # "body" THEN Capped
                ELSE IF oobs # "ok" THEN "false"
                ELSE "body"
          [] instr.iterator = "count" ->
                IF f.i >= f.n THEN "true" ELSE Capped
          [] instr.iterator = "while" -> Capped

\* the test a loop makes before a pass over its body: "body" to make the
\* pass, otherwise what the loop returns.  Comparing the counter with a
\* max_iterations of None raises TypeError, which LoopHandler.execute (or the
\* dropdown loop) turns into False.  oobs is how selecting the option of a
\* dropdown pass went: "ok", "select raised" (the get_attribute or the
\* select_option), "text raised" (the text_content).
LoopTest(f, counter, cobs, oobs) ==
    LET instr == f.instr
        Capped == IF ~instr.max_iterations.some THEN "false"
                  ELSE IF UnderCap(counter, instr.max_iterations) THEN "body"
                  ELSE "true"
    IN  CASE instr.iterator = "pagination" -> Capped
          [] instr.iterator = "dropdown_options" ->
                IF f.i >= f.n THEN "true"
                ELSE IF Capped # "body" THEN Capped
                ELSE IF oobs # "ok" THEN "false"
                ELSE "body"
          [] instr.iterator = "count" ->
                IF f.i >= f.n THEN "true" ELSE Capped
          [] instr.iterator = "while" ->
                IF Capped # "body" THEN Capped
                ELSE IF HandleWaitCondition(instr.while_condition, cobs) THEN "body"
                ELSE "true"

\* the variables a loop sets on the way to its body; an option is known by
\* its index
LoopVariables(f, oobs) ==
    CASE f.instr.iterator = "count" -> SetItem(variables, "loop_index", f.i)
      [] f.instr.iterator = "dropdown_options" /\ oobs = "ok" ->
            SetItem(SetItem(SetItem(variables, "current_option_index", f.i),
                            "current_option_value", [option |-> f.i]),
                    "current_option_text", [option |-> f.i])
      [] f.instr.iterator = "dropdown_options" /\ oobs = "text raised" ->
            SetItem(SetItem(variables, "current_option_index", f.i),
                    "current_option_value", [option |-> f.i])
      [] OTHER -> variables

\* a loop tests whether it goes on, and begins a pass or returns
LoopHead ==
    /\ pc = "exec" /\ Top.kind = "loop" /\ Top.phase = "head"
    /\ \E cobs \in ConditionObs, oobs \in {"ok", "select raised", "text raised"} :
          LET counter == loop_counters[LoopId(Top.instr)]
              t == LoopTest(Top, counter, cobs, oobs)
              reached == /\ Top.instr.iterator = "dropdown_options"
                         /\ Top.i < Top.n
                         /\ Top.instr.max_iterations.some
                         /\ UnderCap(counter, Top.instr.max_iterations)
              begun == IF Top.instr.id \in DOMAIN loop_log.passes
                       THEN loop_log.passes[Top.instr.id] ELSE 0
          IN  /\ loop_log' =
                    [id |-> Top.instr.id, ops |-> WhileOps(Top, counter, cobs),
                     passes |-> IF t = "body"
                                THEN SetItem(loop_log.passes, Top.instr.id, begun + 1)
                                ELSE loop_log.passes]
              /\ IF t = "body"
                 THEN /\ stack' = [stack EXCEPT ![Len(stack)] =
                                     [@ EXCEPT !.phase = "body", !.pos = 1, !.ran = <<>>,
                                               !.runs = @ + 1]]
                      /\ UNCHANGED last
                 ELSE Returns(Callers, Top.instr, t)
              /\ variables' = IF t = "body" \/ reached THEN LoopVariables(Top, oobs)
                              ELSE variables
    /\ UNCHANGED <<procVars, colVars, handlerVars, persistVars, sharedVars>>
    /\ UNCHANGED <<pc, config, fetcher, session, result, exc, loop_counters,
                   collected_data, calls>>

\* what the next control of a pagination loop does: it is found, enabled and
\* the click returns; query_selector returns None; is_enabled returns False;
\* query_selector, is_enabled or click raises.  A click that raises has not
\* activated the control.
NextControlObs ==
    {"ok", "nothing", "disabled", "query error", "enabled error", "click error"}

\* a pagination loop that goes on to its next pass without a click on the
\* next control
PaginationOps_NoClick(instr, cobs, obs) ==
    IF /\ instr.break_condition # NoCondition
       /\ HandleWaitCondition(instr.break_condition, cobs)
    THEN <<"break_condition true">>
    ELSE <<"query_selector", "is_enabled True", "sleep">>

\* the end of a pass of a pagination loop: the evaluation of break_condition
\* (when there is one) and, unless it held, the calls on the next control, in
\* the order they are made
PaginationOps(instr, cobs, obs) ==
    LET held == /\ instr.break_condition # NoCondition
                /\ HandleWaitCondition(instr.break_condition, cobs)
        break == IF instr.break_condition = NoCondition THEN <<>>
                 ELSE IF held THEN <<"break_condition true">>
                 ELSE <<"break_condition false">>
        control ==
            CASE obs = "query error" -> <<"query_selector raised">>
              [] obs = "nothing" -> <<"query_selector None">>
              [] obs = "enabled error" -> <<"query_selector", "is_enabled raised">>
              [] obs = "disabled" -> <<"query_selector", "is_enabled False">>
              [] obs = "click error" ->
                    <<"query_selector", "is_enabled True", "click raised">>
              [] obs = "ok" -> <<"query_selector", "is_enabled True", "click", "sleep">>
    IN  IF held THEN break ELSE break \o control

\* a pagination loop that clicks the next control whatever break_condition
\* evaluated to
LoopStep_IgnoresBreak(f, cobs, obs) ==
    IF f.instr.iterator = "pagination"
    THEN IF obs = "ok" THEN "again" ELSE "true"
    ELSE "again"

\* a while loop that makes one pass, as an "if" would
LoopStep_WhileOnce(f, cobs, obs) ==
    IF f.instr.iterator = "pagination"
    THEN IF /\ f.instr.break_condition # NoCondition
            /\ HandleWaitCondition(f.instr.break_condition, cobs)
         THEN "true"
         ELSE IF obs = "ok" THEN "again" ELSE "true"
    ELSE IF f.instr.iterator = "while" THEN "true"
    ELSE "again"

\* what follows a pass over the body: "again" for the next test, with the
\* counter incremented, otherwise what the loop returns
LoopStep(f, cobs, obs) ==
    IF f.instr.iterator = "pagination"
    THEN IF /\ f.instr.break_condition # NoCondition
            /\ HandleWaitCondition(f.instr.break_condition, cobs)
         THEN "true"
         ELSE IF obs = "ok" THEN "again" ELSE "true"
    ELSE "again"

\* the end of a pass over the body of a loop
LoopTail ==
    /\ AtEnd("loop")
    /\ \E cobs \in ConditionObs, obs \in NextControlObs :
          LET ops == IF Top.instr.iterator = "pagination"
                     THEN PaginationOps(Top.instr, cobs, obs) ELSE <<>>
              clicked == \E k \in DOMAIN ops : ops[k] = "click"
          IN  /\ loop_log' = [loop_log EXCEPT !.id = Top.instr.id, !.ops = ops]
              /\ IF LoopStep(Top, cobs, obs) = "again"
                 THEN /\ loop_counters' =
                            [loop_counters EXCEPT ![LoopId(Top.instr)] = @ + 1]
                      /\ stack' = [stack EXCEPT ![Len(stack)] =
                                     [@ EXCEPT !.phase = "head",
                                               !.i = IF Top.instr.iterator \in
                                                             {"count", "dropdown_options"}
                                                     THEN @ + 1 ELSE @,
                                               !.clicks = IF clicked THEN @ + 1 ELSE @]]
                      /\ UNCHANGED last
                 ELSE /\ Returns(Callers, Top.instr, LoopStep(Top, cobs, obs))
                      /\ UNCHANGED loop_counters
    /\ UNCHANGED <<procVars, colVars, handlerVars, persistVars, sharedVars>>
    /\ UNCHANGED <<pc, config, fetcher, session, result, exc, variables, collected_data,
                   calls>>

(***************************************************************************)
(* The run around the instructions.                                        *)
(***************************************************************************)
\* ScrapingResult.add_error
AddError(r, error) == [r EXCEPT !.errors = Append(@, error)]

\* a finalize that counts the errors before any was added
Finalize_NoErrorCount(r) ==
    [r EXCEPT !.end_time = TRUE,
              !.metadata = [duration_seconds |-> TRUE,
                            total_events |-> Len(r.events),
                            total_markets |-> Len(r.markets),
                            total_selections |-> Len(r.selections),
                            error_count |-> 0]]

\* ScrapingResult.finalize
Finalize(r) ==
    [r EXCEPT !.end_time = TRUE,
              !.metadata = [duration_seconds |-> TRUE,
                            total_events |-> Len(r.events),
                            total_markets |-> Len(r.markets),
                            total_selections |-> Len(r.selections),
                            error_count |-> Len(r.errors)]]

\* the dummy event of _extract_from_content
SampleEvent == [name |-> StrV("Sample Event")]

\* the fetchers that drive a browser (BrowserFetcher and its subclass)
BrowserTypes == {"browser", "interactive"}

\* run up to the first await: the result (ScrapingResult.__init__; end_time
\* is whether end_time is set), the fetcher, the dispatch
RunStart ==
    /\ pc = "start"
    /\ result' = [events |-> <<>>, markets |-> <<>>, selections |-> <<>>,
                  errors |-> <<>>, end_time |-> FALSE, metadata |-> <<>>]
    /\ fetcher' = config.fetcher
    /\ calls' = [calls EXCEPT !.created = @ + 1]
    /\ pc' = CASE config.fetcher = "interactive" -> "session"
               [] config.fetcher = "api" -> "api"
               [] OTHER -> "simple"
    /\ UNCHANGED <<procVars, colVars, handlerVars, persistVars, sharedVars>>
    /\ UNCHANGED loop_log
    /\ UNCHANGED <<config, session, exc, stack, loop_counters, variables, collected_data,
                   last>>

\* InteractiveFetcher.create_session: it succeeds, it raises before a browser
\* is up, it raises once the browser is up
CreateSession ==
    /\ pc = "session"
    /\ \/ /\ session' = "page"
          /\ pc' = "navigate"
          /\ UNCHANGED result
       \/ /\ session' \in {"none", "browser"}
          /\ result' = AddError(result, "Interactive scraping error")
          /\ pc' = "close"
    /\ UNCHANGED <<procVars, colVars, handlerVars, persistVars, sharedVars>>
    /\ UNCHANGED loop_log
    /\ UNCHANGED <<config, fetcher, exc, stack, loop_counters, variables, collected_data,
                   last, calls>>

\* a run that records the failure of the navigation to the start URL and
\* executes the instructions all the same
Navigate_GoesOn ==
    /\ pc = "navigate"
    /\ stack' = <<Frame("top", Blank, config.instructions, "body", 0, 0)>>
    /\ pc' = "exec"
    /\ \/ UNCHANGED result
       \/ result' = AddError(result, "Interactive scraping error")
    /\ UNCHANGED <<procVars, colVars, handlerVars, persistVars, sharedVars>>
    /\ UNCHANGED loop_log
    /\ UNCHANGED <<config, fetcher, session, exc, loop_counters, variables,
                   collected_data, last, calls>>

\* a run whose failed navigation to the start URL leaves the session as it
\* is
Navigate_LeavesSession ==
    /\ pc = "navigate"
    /\ \/ /\ stack' = <<Frame("top", Blank, config.instructions, "body", 0, 0)>>
          /\ pc' = "exec"
          /\ UNCHANGED result
       \/ /\ result' = AddError(result, "Interactive scraping error")
          /\ pc' = "persist"
          /\ UNCHANGED stack
    /\ UNCHANGED <<procVars, colVars, handlerVars, persistVars, sharedVars>>
    /\ UNCHANGED loop_log
    /\ UNCHANGED <<config, fetcher, session, exc, loop_counters, variables,
                   collected_data, last, calls>>

\* InteractiveFetcher.navigate, then InstructionContext(page)
Navigate ==
    /\ pc = "navigate"
    /\ \/ /\ stack' = <<Frame("top", Blank, config.instructions, "body", 0, 0)>>
          /\ pc' = "exec"
          /\ UNCHANGED result
       \/ /\ result' = AddError(result, "Interactive scraping error")
          /\ pc' = "close"
          /\ UNCHANGED stack
    /\ UNCHANGED <<procVars, colVars, handlerVars, persistVars, sharedVars>>
    /\ UNCHANGED loop_log
    /\ UNCHANGED <<config, fetcher, session, exc, loop_counters, variables,
                   collected_data, last, calls>>

\* the list of the result that _process_collected_data files a collection
\* in, for the names the configurations use: the first of 'event', 'market',
\* 'selection' or 'odds' that the lower-cased name contains, else events
Bucket(name) ==
    CASE name \in {"events", "event_markets"} -> "events"
      [] name \in {"Markets"} -> "markets"
      [] name \in {"odds"} -> "selections"
      [] OTHER -> "events"

\* the items of the collections filed in bucket, from collection k on
RECURSIVE Filed(_, _, _)
Filed(cd, bucket, k) ==
    IF k > Len(cd) THEN <<>>
    ELSE (IF Bucket(cd[k].name) = bucket THEN cd[k].items ELSE <<>>) \o Filed(cd, bucket, k + 1)

\* a run that extracts from the final page whether or not there are
\* collections
FinishInstructions_AlwaysExtracts ==
    /\ AtEnd("top")
    /\ result' = [result EXCEPT !.events = @ \o Filed(collected_data, "events", 1),
                                !.markets = @ \o Filed(collected_data, "markets", 1),
                                !.selections = @ \o Filed(collected_data, "selections", 1)]
    /\ pc' = "content"
    /\ UNCHANGED <<procVars, colVars, handlerVars, persistVars, sharedVars>>
    /\ UNCHANGED loop_log
    /\ UNCHANGED <<config, fetcher, session, exc, stack, loop_counters, variables,
                   collected_data, last, calls>>

\* the end of the top-level list: the collections are filed in the result
FinishInstructions ==
    /\ AtEnd("top")
    /\ result' = [result EXCEPT !.events = @ \o Filed(collected_data, "events", 1),
                                !.markets = @ \o Filed(collected_data, "markets", 1),
                                !.selections = @ \o Filed(collected_data, "selections", 1)]
    /\ pc' = IF collected_data = <<>> THEN "content" ELSE "close"
    /\ UNCHANGED <<procVars, colVars, handlerVars, persistVars, sharedVars>>
    /\ UNCHANGED loop_log
    /\ UNCHANGED <<config, fetcher, session, exc, stack, loop_counters, variables,
                   collected_data, last, calls>>

\* no collection: get_current_content and _extract_from_content
FinalContent ==
    /\ pc = "content"
    /\ \/ result' = [result EXCEPT !.events = Append(@, SampleEvent)]
       \/ result' = AddError(result, "Interactive scraping error")
    /\ pc' = "close"
    /\ UNCHANGED <<procVars, colVars, handlerVars, persistVars, sharedVars>>
    /\ UNCHANGED loop_log
    /\ UNCHANGED <<config, fetcher, session, exc, stack, loop_counters, variables,
                   collected_data, last, calls>>

\* the finally of _run_interactive_scraping: close_session.  page.close()
\* may raise; the exception replaces the one that was propagating and is
\* caught by the "except Exception" of run.
CloseSession ==
    /\ pc = "close"
    /\ calls' = [calls EXCEPT !.closes = @ + 1]
    /\ \/ /\ session' = IF session = "page" THEN "browser" ELSE session
          /\ pc' = IF exc = "none" THEN "persist" ELSE "cleanup"
          /\ UNCHANGED <<result, exc>>
       \/ /\ session = "page"
          /\ result' = AddError(result, "Pipeline error")
          /\ exc' = "none"
          /\ pc' = "cleanup"
          /\ UNCHANGED session
    /\ UNCHANGED <<procVars, colVars, handlerVars, persistVars, sharedVars>>
    /\ UNCHANGED loop_log
    /\ UNCHANGED <<config, fetcher, stack, loop_counters, variables, collected_data, last>>

\* an API run that takes the instructions from the last to the first
RECURSIVE ApiEvents_Backwards(_, _, _)
ApiEvents_Backwards(instructions, json_data, k) ==
    IF k > Len(instructions) THEN <<>>
    ELSE ApiEvents_Backwards(instructions, json_data, k + 1)
         \o (IF instructions[k].type = "collect"
             THEN Records(ProcessJsonCollection(instructions[k], json_data).items)
             ELSE <<>>)

\* "for instruction in self.config.instructions: if instruction.type ==
\* 'collect'" of _run_api_scraping, from instruction k on: the events added
RECURSIVE ApiEvents(_, _, _)
ApiEvents(instructions, json_data, k) ==
    IF k > Len(instructions) THEN <<>>
    ELSE (IF instructions[k].type = "collect"
          THEN Records(ProcessJsonCollection(instructions[k], json_data).items)
          ELSE <<>>) \o ApiEvents(instructions, json_data, k + 1)

\* _run_api_scraping; the API answers with a payload of at most one item
ApiScrape ==
    /\ pc = "api"
    /\ \/ result' = AddError(result, "API scraping error")
       \/ \E json_data \in { Payload(items) : items \in SeqsUpTo(JsonElements, 1) } :
             result' = [result EXCEPT !.events = @ \o ApiEvents(config.instructions, json_data, 1)]
    /\ pc' = "persist"
    /\ UNCHANGED <<procVars, colVars, handlerVars, persistVars, sharedVars>>
    /\ UNCHANGED loop_log
    /\ UNCHANGED <<config, fetcher, session, exc, stack, loop_counters, variables,
                   collected_data, last, calls>>

\* _run_simple_scraping, with a StaticFetcher or a BrowserFetcher
SimpleScrape ==
    /\ pc = "simple"
    /\ \/ /\ result' = AddError(result, "Simple scraping error")
          /\ session' \in IF fetcher = "browser" THEN {"none", "browser"} ELSE {session}
       \/ /\ result' = IF config.instructions = <<>>
                       THEN [result EXCEPT !.events = Append(@, SampleEvent)]
                       ELSE AddError(result, "Instructions require interactive fetcher")
          /\ session' = IF fetcher = "browser" THEN "browser" ELSE session
    /\ pc' = "persist"
    /\ UNCHANGED <<procVars, colVars, handlerVars, persistVars, sharedVars>>
    /\ UNCHANGED loop_log
    /\ UNCHANGED <<config, fetcher, exc, stack, loop_counters, variables, collected_data,
                   last, calls>>

\* _persist_results: the bookmaker or the category cannot be had, or the
\* events of failed are not saved
Persist ==
    /\ pc = "persist"
    /\ \/ result' = AddError(result, "Persistence error")
       \/ \E failed \in SUBSET DOMAIN result.events :
             result' = [result EXCEPT !.errors =
                          @ \o [n \in 1..Cardinality(failed) |-> "Failed to save event"]]
    /\ pc' = "cleanup"
    /\ UNCHANGED <<procVars, colVars, handlerVars, persistVars, sharedVars>>
    /\ UNCHANGED loop_log
    /\ UNCHANGED <<config, fetcher, session, exc, stack, loop_counters, variables,
                   collected_data, last, calls>>

\* a run that leaves its fetcher as it is
NeedsCleanup_Never(f) == FALSE

\* "if self.fetcher" in the finally of run
NeedsCleanup(f) == f # "none"

\* the finally of run: cleanup.  BrowserFetcher.cleanup closes what was
\* opened, and raises if a close raises; the exception leaves run.
Cleanup ==
    /\ pc = "cleanup"
    /\ IF NeedsCleanup(fetcher)
       THEN /\ calls' = [calls EXCEPT !.cleanups = @ + 1]
            /\ \/ /\ pc' = "finalize"
                  /\ UNCHANGED exc
               \/ /\ fetcher \in BrowserTypes /\ session # "none"
                  /\ exc' = "Exception"
                  /\ pc' = "raised"
       ELSE /\ pc' = "finalize"
            /\ UNCHANGED <<calls, exc>>
    /\ UNCHANGED <<procVars, colVars, handlerVars, persistVars, sharedVars>>
    /\ UNCHANGED loop_log
    /\ UNCHANGED <<config, fetcher, session, result, stack, loop_counters, variables,
                   collected_data, last>>

\* the finally of run after cleanup: finalize; then the return, or the
\* CancelledError goes on to the caller
FinishRun ==
    /\ pc = "finalize"
    /\ result' = Finalize(result)
    /\ pc' = IF exc = "none" THEN "returned" ELSE "raised"
    /\ UNCHANGED <<procVars, colVars, handlerVars, persistVars, sharedVars>>
    /\ UNCHANGED loop_log
    /\ UNCHANGED <<config, fetcher, session, exc, stack, loop_counters, variables,
                   collected_data, last, calls>>

\* the step of the instructions the run is at awaits something;
\* handle_wait_condition awaits the page or a timer but for "url_contains"
ExecAwaits ==
    /\ pc = "exec"
    /\ LET ConditionAwaits(condition) ==
              condition.type \in {"timeout", "selector", "element_count"}
       IN
       IF Top.phase = "head"
       THEN \/ Top.instr.iterator = "dropdown_options" /\ Top.i < Top.n
            \/ Top.instr.iterator = "while" /\ ConditionAwaits(Top.instr.while_condition)
       ELSE IF Top.pos > Len(Top.seq)
       THEN Top.kind = "loop" /\ Top.instr.iterator # "count"
       ELSE CASE Current.type \in {"click", "navigate", "input", "collect", "custom"} -> TRUE
              [] Current.type = "wait" -> ConditionAwaits(Current.condition)
              [] Current.type = "if" -> ConditionAwaits(Current.condition)
              [] Current.type = "select" -> Current.given # ""
              [] Current.type = "scroll" ->
                    \/ Current.direction \in {"down", "up"}
                    \/ Current.direction = "to_element" /\ Current.selector
              [] Current.type = "loop" ->
                    Current.iterator = "dropdown_options" /\ Current.dropdown_selector
              [] OTHER -> FALSE

\* task.cancel() while the run is suspended: CancelledError is raised at the
\* await the run is at.  No "except Exception" catches it; the finally
\* blocks run.
Cancel ==
    /\ calls.cancels < MaxCancels
    /\ exc' = "Cancelled"
    /\ \/ /\ pc \in {"navigate", "content"} \/ ExecAwaits
          /\ pc' = "close"
          /\ calls' = [calls EXCEPT !.cancels = @ + 1]
          /\ UNCHANGED session
       \/ /\ pc = "session"
          /\ pc' = "close"
          /\ session' \in {"none", "browser"}
          /\ calls' = [calls EXCEPT !.cancels = @ + 1]
       \/ /\ pc = "simple" /\ fetcher = "browser"
          /\ pc' = "cleanup"
          /\ session' \in {"none", "browser"}
          /\ calls' = [calls EXCEPT !.cancels = @ + 1]
       \/ /\ pc = "close" /\ session = "page"
          /\ pc' = "cleanup"
          /\ calls' = [calls EXCEPT !.cancels = @ + 1, !.closes = @ + 1]
          /\ UNCHANGED session
       \/ /\ pc = "cleanup" /\ NeedsCleanup(fetcher)
          /\ fetcher \in BrowserTypes /\ session # "none"
          /\ pc' = "raised"
          /\ calls' = [calls EXCEPT !.cancels = @ + 1, !.cleanups = @ + 1]
          /\ UNCHANGED session
    /\ UNCHANGED <<procVars, colVars, handlerVars, persistVars, sharedVars>>
    /\ UNCHANGED loop_log
    /\ UNCHANGED <<config, fetcher, result, stack, loop_counters, variables,
                   collected_data, last>>

(***************************************************************************)
(* The configurations of Spec.                                             *)
(***************************************************************************)
\* The configurations: structurally valid ones (at least one instruction; a
\* browser fetcher has a browser instruction).
\*   Loop(l)   one loop of each strategy with every cap, over a body whose
\*             first instruction ends as its handler likes and whose second
\*             always fails, followed by an instruction without a handler
\*   Collects  a Collect inside a loop, then one of the same name and one of
\*             another
\*   Branches  an If with every simple instruction in its branches
\*   Nested    a loop in an If in a loop
\*   NestedCounts  a count loop in a count loop, followed in the body of
\*             the outer one by another instruction
Configs ==
    LET Caps == {NoInt} \cup { SomeInt(n) : n \in 0..MaxIter }
        Counts == {NoInt} \cup { SomeInt(n) : n \in 0..MaxCount }
        Fields == "title" :> FieldConfig(CssList(<<".a", ".b">>), "text", NoneV, <<>>)
        JsonFields ==
            "title" :> FieldConfig(Field("b"), "text", StrV(""), <<StepStr("uppercase")>>)
        Body == <<CustomInstruction(11), SelectInstruction(12, "")>>
        Loops ==
            { PaginationLoop(10, m, TRUE, b, Body) :
                m \in Caps, b \in {NoCondition, Condition("selector")} }
            \cup { PaginationLoop(10, SomeInt(MaxIter), FALSE, NoCondition, Body) }
            \cup { DropdownLoop(10, m, TRUE, k, Body) : m \in Caps, k \in BOOLEAN }
            \cup { DropdownLoop(10, SomeInt(MaxIter), FALSE, FALSE, Body) }
            \cup { CountLoop(10, m, c, Body) : m \in Caps, c \in Counts }
            \cup { WhileLoop(10, m, c, Body) :
                     m \in Caps, c \in {Condition("element_count"), Condition("timeout")} }
            \cup { WhileLoop(10, SomeInt(MaxIter), NoCondition, Body) }
            \cup { [CountLoop(10, SomeInt(MaxIter), SomeInt(MaxCount), Body)
                      EXCEPT !.iterator = "each"] }
        Interactive(instructions) ==
            [fetcher |-> "interactive", instructions |-> instructions]
        Collects ==
            <<CountLoop(20, SomeInt(MaxIter), SomeInt(MaxIter),
                        <<CollectInstruction(21, "events", NoInt, Fields, ".list", ".row")>>),
              CollectInstruction(22, "events", SomeInt(1), Fields, ".list", ".row"),
              CollectInstruction(23, "odds", NoInt, Fields, ".list", ".odd")>>
        Branches ==
            <<IfInstruction(30, Condition("url_contains"),
                            <<ClickInstruction(31, TRUE, FALSE, Condition("timeout")),
                              WaitInstruction(32, Condition("element_count")),
                              ScrollInstruction(33, "to_element", FALSE)>>,
                            <<ClickInstruction(34, FALSE, TRUE, NoCondition),
                              InputInstruction(35),
                              ScrollInstruction(36, "down", FALSE)>>),
              NavigateInstruction(37, NoCondition),
              SelectInstruction(38, "value"),
              UnhandledInstruction(39)>>
        Nested ==
            <<WhileLoop(40, SomeInt(MaxIter), Condition("selector"),
                <<IfInstruction(41, Condition("selector"),
                    <<CountLoop(42, SomeInt(1), SomeInt(MaxIter),
                                <<CustomInstruction(43), UnhandledInstruction(44)>>)>>,
                    <<>>)>>)>>
        NestedCounts ==
            <<CountLoop(60, SomeInt(MaxIter), SomeInt(MaxCount),
                <<CountLoop(61, SomeInt(MaxIter), SomeInt(MaxCount),
                            <<CustomInstruction(62)>>),
                  CustomInstruction(63)>>)>>
        JsonCollect ==
            CollectInstruction(50, "events", NoInt, JsonFields,
                               PathSelector(<<Part("data", NoAccess)>>), Field("events"))
        JsonOdds ==
            CollectInstruction(53, "odds", NoInt,
                               "id" :> FieldConfig(Field("id"), "text", StrV(""), <<>>),
                               PathSelector(<<Part("data", NoAccess)>>), Field("events"))
    IN  { Interactive(<<l, UnhandledInstruction(13)>>) : l \in Loops }
        \cup {Interactive(Collects), Interactive(Branches), Interactive(Nested),
              Interactive(NestedCounts)}
        \cup { [fetcher |-> "api", instructions |-> <<JsonCollect>>],
               [fetcher |-> "api",
                instructions |-> <<JsonCollect, ClickInstruction(52, FALSE, FALSE, NoCondition),
                                   JsonOdds>>],
               [fetcher |-> "static", instructions |-> <<JsonCollect>>],
               [fetcher |-> "browser",
                instructions |-> <<WaitInstruction(51, Condition("selector")), JsonCollect>>] }

Init ==
    /\ IdleProc
    /\ IdleCollect
    /\ IdleHandler
    /\ IdlePersist
    /\ IdleShared
    /\ pc = "start"
    /\ config \in Configs
    /\ fetcher = "none"
    /\ session = "none"
    /\ result = <<>>
    /\ exc = "none"
    /\ stack = <<>>
    /\ loop_counters = <<>>
    /\ variables = <<>>
    /\ collected_data = <<>>
    /\ last = NoCall
    /\ calls = [created |-> 0, cleanups |-> 0, closes |-> 0, cancels |-> 0]
    /\ loop_log = NoLoop

Next ==
    \/ RunStart
    \/ CreateSession
    \/ Navigate
    \/ ExecSimple
    \/ ExecCollect
    \/ EnterIf
    \/ ExitIf
    \/ EnterLoop
    \/ LoopHead
    \/ LoopTail
    \/ FinishInstructions
    \/ FinalContent
    \/ CloseSession
    \/ ApiScrape
    \/ SimpleScrape
    \/ Persist
    \/ Cleanup
    \/ FinishRun
    \/ Cancel

Spec == Init /\ [][Next]_vars

(***************************************************************************)
(* Properties of Spec.                                                     *)
(***************************************************************************)
\* the loops under way
LoopFrames == { k \in DOMAIN stack : stack[k].kind = "loop" }

\* C1: during one execution of a Loop instruction, whatever its strategy and
\* whatever the page does, the passes made over its body are never more than
\* max_iterations (a max_iterations of None lets no pass begin).
C1_BodyRunsAtMostMaxIterations ==
    \A k \in LoopFrames :
        LET f == stack[k]
        IN  IF f.instr.max_iterations.some
            THEN f.runs <= f.instr.max_iterations.v
            ELSE f.runs = 0

\* a count loop stopped by the cap with indices still to go
C1_Witness ==
    \E k \in LoopFrames :
        /\ stack[k].instr.iterator = "count"
        /\ stack[k].phase = "head"
        /\ stack[k].runs = MaxIter
        /\ stack[k].instr.max_iterations = SomeInt(MaxIter)
        /\ stack[k].i < stack[k].n

\* C2: in every sequence being run (the top-level list, a loop body, an If
\* branch) the instructions run so far in this pass are exactly the ones
\* before the current position, each once and in list order, whatever they
\* returned; so a pass that reaches the end has run them all.
C2_SequenceRunsInOrder ==
    \A k \in DOMAIN stack :
        LET f == stack[k]
        IN  f.phase = "body" =>
              /\ f.pos \in 1..(Len(f.seq) + 1)
              /\ Len(f.ran) = f.pos - 1
              /\ \A j \in DOMAIN f.ran : f.ran[j].pos = j

\* a pass over a loop body that reached its end after its first instruction
\* returned false
C2_Witness ==
    \E k \in LoopFrames :
        /\ stack[k].phase = "body"
        /\ Len(stack[k].seq) >= 2
        /\ stack[k].pos = Len(stack[k].seq) + 1
        /\ stack[k].ran[1].result = "false"

\* C3: every execute_instruction that ended returned a boolean, also when
\* its handler raised, and returned false when the type has no handler.
C3_ExecuteInstructionReturnsBool ==
    /\ last # NoCall =>
          /\ last.result \in {"true", "false"}
          /\ last.how \in {"raised", "no handler"} => last.result = "false"
    /\ \A k \in DOMAIN stack : \A j \in DOMAIN stack[k].ran :
          /\ stack[k].ran[j].result \in {"true", "false"}
          /\ stack[k].ran[j].how \in {"raised", "no handler"} =>
                stack[k].ran[j].result = "false"

\* three levels down, a handler raised and the next instruction had no
\* handler: both calls returned false
C3_Witness ==
    /\ Len(stack) >= 4
    /\ Len(Top.ran) = 2
    /\ Top.ran[1].how = "raised" /\ Top.ran[1].result = "false"
    /\ Top.ran[2].how = "no handler" /\ Top.ran[2].result = "false"
    /\ last.type = "unhandled"

\* C4: a run that no one cancelled ends by returning, never by raising, and
\* the result it returns is finalized.
C4_RunReturnsFinalized ==
    /\ pc = "raised" => calls.cancels > 0
    /\ pc = "returned" => result.end_time

\* what the code does: a returned result is finalized, with the counts of
\* what it holds; an exception that leaves an uncancelled run comes from the
\* cleanup of a browser fetcher, and the result is then not finalized.
C4_OnlyCleanupEscapes ==
    /\ pc = "returned" =>
          /\ result.end_time
          /\ result.metadata.total_events = Len(result.events)
          /\ result.metadata.error_count = Len(result.errors)
    /\ pc = "raised" /\ exc = "Exception" =>
          /\ fetcher \in BrowserTypes
          /\ ~result.end_time
    /\ pc = "raised" => exc # "none"

\* C5: the fetcher a run created has cleanup called at most once, and
\* exactly once by the time the run has ended, however it ended.
C5_CleanupOncePerFetcher ==
    /\ calls.cleanups <= calls.created
    /\ pc \in {"returned", "raised"} => calls.cleanups = calls.created

\* a run cancelled while its instructions ran: the CancelledError left run
\* after close_session, cleanup and finalize
C5_Witness ==
    /\ pc = "raised"
    /\ exc = "Cancelled"
    /\ stack # <<>>
    /\ calls = [created |-> 1, cleanups |-> 1, closes |-> 1, cancels |-> 1]

IsPrefix(a, b) == Len(a) <= Len(b) /\ SubSeq(b, 1, Len(a)) = a

\* C6: a step of the run leaves every named collection of the context in
\* place, with the records it held still there, in order, as a prefix.
C6_CollectionsAppendOnly ==
    [][\A k \in DOMAIN collected_data :
          /\ k \in DOMAIN collected_data'
          /\ collected_data'[k].name = collected_data[k].name
          /\ IsPrefix(collected_data[k].items, collected_data'[k].items)]_vars

\* what the code does: a Collect that finds containers replaces the
\* collection of its name with what it gathered; the other collections stay.
C6_CollectReplaces ==
    [][\A k \in DOMAIN collected_data :
          /\ k \in DOMAIN collected_data'
          /\ collected_data'[k].name = collected_data[k].name
          /\ \/ collected_data'[k].items = collected_data[k].items
             \/ /\ AtInstruction({"collect"})
                /\ Current.name = collected_data[k].name]_vars

\* C12: an If under way runs the instructions of one branch only, the then
\* branch when its condition evaluated to true and the else branch when it
\* evaluated to false, each of them at most once; and an If that ended
\* returned true.
C12_IfRunsOneBranch ==
    /\ \A k \in DOMAIN stack :
          stack[k].kind = "if" =>
              /\ stack[k].seq = IF stack[k].met THEN stack[k].instr.then_instructions
                                ELSE stack[k].instr.else_instructions
              /\ Len(stack[k].ran) <= Len(stack[k].seq)
    /\ last.type = "if" => last.result = "true"

\* the If of the nested configuration ended with true in a run where its
\* then branch never began (the loop of that branch has no counter): its
\* condition was false, it has no else_instructions, nothing nested ran
C12_Witness ==
    /\ last.type = "if" /\ last.id = 41 /\ last.result = "true"
    /\ 42 \notin DOMAIN loop_counters
    /\ pc = "exec"

\* a While loop with a cap whose condition is true whenever it is evaluated:
\* a timeout condition sleeps and returns True
AlwaysTrueWhile(instr) ==
    /\ instr.type = "loop" /\ instr.iterator = "while"
    /\ instr.while_condition.type = "timeout"
    /\ instr.max_iterations.some

\* C15: a While loop whose condition is true at every evaluation returns
\* only after exactly max_iterations passes over its body, and returns
\* success.
C15_AlwaysTrueWhileRunsToCap ==
    [][(/\ pc = "exec" /\ pc' = "exec"
        /\ Top.kind = "loop" /\ AlwaysTrueWhile(Top.instr)
        /\ Len(stack') < Len(stack))
       => /\ Top.runs = Top.instr.max_iterations.v
          /\ loop_counters[Top.instr.id] = Top.instr.max_iterations.v
          /\ last' = [type |-> "loop", id |-> Top.instr.id, how |-> "true",
                      result |-> "true"]]_vars

\* the loop capped at MaxIter has returned success after MaxIter passes, each
\* of which ran the whole body
C15_Witness ==
    /\ pc = "exec" /\ Len(stack) = 1
    /\ AlwaysTrueWhile(config.instructions[1])
    /\ config.instructions[1].max_iterations = SomeInt(MaxIter)
    /\ last.type = "loop" /\ last.result = "true"
    /\ loop_counters[config.instructions[1].id] = MaxIter
    /\ Top.pos = 2

\* the innermost frame is a dropdown loop with skip_first_option and a cap,
\* over the Top.n options the control had when the loop began
SkippingDropdown ==
    /\ pc = "exec"
    /\ Top.kind = "loop" /\ Top.instr.iterator = "dropdown_options"
    /\ Top.instr.skip_first_option
    /\ Top.instr.max_iterations.some

\* C16 as stated: a dropdown loop with skip_first_option over K options
\* returns after exactly min(K-1, max_iterations) passes over its body,
\* for every K >= 0.
C16_RunsMinOfRemaining ==
    [][(SkippingDropdown /\ pc' = "exec" /\ Len(stack') < Len(stack))
       => Top.runs = Min(Top.n - 1, Top.instr.max_iterations.v)]_vars

\* C16 amended: the loop that returns success has made exactly
\* min(max(K-1, 0), max_iterations) passes, none when the control has no
\* option; the loop that could not select an option returns failure after
\* fewer.  The passes take the options after the first in option order: pass
\* r is made with option index r published.
C16_RunsMinOfRemainingOrNone ==
    [][SkippingDropdown =>
          LET remaining == IF Top.n >= 1 THEN Top.n - 1 ELSE 0
              passes == Min(remaining, Top.instr.max_iterations.v)
          IN  /\ (pc' = "exec" /\ Len(stack') < Len(stack)) =>
                    /\ last'.type = "loop" /\ last'.id = Top.instr.id
                    /\ last'.result = "true" => Top.runs = passes
                    /\ last'.result = "false" => Top.runs < passes
              /\ (pc' = "exec" /\ Len(stack') = Len(stack) /\ Top.phase = "head"
                     /\ stack'[Len(stack)].phase = "body") =>
                    /\ Top.i = Top.runs + 1
                    /\ Top.i < Top.n
                    /\ variables'["current_option_index"] = Top.i]_vars

\* a control with two options and a cap of two: the loop is about to return
\* after its only pass, made with the second option
C16_Witness ==
    /\ SkippingDropdown
    /\ Top.phase = "head"
    /\ Top.n = 2 /\ Top.i = 2 /\ Top.runs = 1
    /\ Top.instr.max_iterations = SomeInt(2)
    /\ variables["current_option_index"] = 1

\* the first instruction of the configuration, a Count loop with a count and
\* a cap, has returned
CountLoopReturned ==
    /\ pc = "exec"
    /\ config.instructions[1].type = "loop"
    /\ config.instructions[1].iterator = "count"
    /\ config.instructions[1].count.some
    /\ config.instructions[1].max_iterations.some
    /\ last.type = "loop" /\ last.id = config.instructions[1].id

\* C17 as stated: a Count loop with count c >= 0 and a cap makes exactly
\* min(c, max_iterations) passes over its body and returns success.
C17_CountLoopRunsAndSucceeds ==
    CountLoopReturned =>
        /\ loop_counters[last.id] = Min(config.instructions[1].count.v,
                                        config.instructions[1].max_iterations.v)
        /\ last.result = "true"

\* what the code does: the passes are as stated, and the loop returns
\* success except for a count of 0, which it refuses as a missing count
C17_CountOfZeroRefused ==
    CountLoopReturned =>
        /\ loop_counters[last.id] = Min(config.instructions[1].count.v,
                                        config.instructions[1].max_iterations.v)
        /\ (last.result = "true") = (config.instructions[1].count.v >= 1)

\* the run of a static configuration of Collect instructions has returned,
\* its fetch and its persistence having succeeded
StaticCollectReturned ==
    /\ pc = "returned"
    /\ config.fetcher = "static"
    /\ config.instructions # <<>>
    /\ \A k \in DOMAIN config.instructions : config.instructions[k].type = "collect"
    /\ \A k \in DOMAIN result.errors :
          result.errors[k] \notin {"Simple scraping error", "Persistence error",
                                   "Failed to save event"}

\* C22 as stated: the run of a valid configuration with a static fetcher and
\* Collect instructions, whose fetch and persistence succeed, returns a
\* result without errors.
C22_StaticCollectHasNoError ==
    StaticCollectReturned => result.errors = <<>>

\* what the code does: the run executes none of the Collect instructions and
\* returns the error that instructions need the interactive fetcher
C22_StaticCollectReportsInstructions ==
    StaticCollectReturned =>
        /\ result.errors = <<"Instructions require interactive fetcher">>
        /\ result.events = <<>>
        /\ result.metadata.error_count = 1

\* C23: in api mode the run makes one step of fetching and processing, from
\* the start of the run and on to persistence; when it adds no error, the
\* events it adds are those of the Collect instructions in configuration
\* order, as many per Collect as the payload has items, each with the fields
\* of its Collect; and no instruction is executed: no call of
\* execute_instruction, no collection, counter or variable of a context.
C23_ApiRunsCollectsInOrder ==
    [][/\ pc' = "api" => pc = "start" /\ config.fetcher = "api"
       /\ pc = "api" =>
             /\ pc' = "persist"
             /\ stack' = <<>> /\ last' = NoCall
             /\ collected_data' = <<>> /\ loop_counters' = <<>> /\ variables' = <<>>
             /\ result'.markets = <<>> /\ result'.selections = <<>>
             /\ result'.errors = <<>> =>
                   LET IsCollect(i) == i.type = "collect"
                       collects == SelectSeq(config.instructions, IsCollect)
                       new == result'.events
                   IN  \E n \in 0..1 :
                          /\ Len(new) = n * Len(collects)
                          /\ \A j \in DOMAIN new :
                                DOMAIN new[j] = DOMAIN collects[j].fields]_vars

\* the run of the configuration with a Click between two Collects has
\* processed a payload of one item: one event of each Collect
C23_Witness ==
    /\ pc = "persist" /\ config.fetcher = "api"
    /\ Len(config.instructions) = 3
    /\ result.errors = <<>>
    /\ Len(result.events) = 2
    /\ DOMAIN result.events[1] = {"title"} /\ DOMAIN result.events[2] = {"id"}

\* the instructions of an interactive run have been executed and their
\* collections filed in this step
FiledNow == pc = "exec" /\ pc' \in {"content", "close"} /\ exc' = "none"

\* the records of the collections of the context
CollectedCount == Len(Filed(collected_data, "events", 1))
                  + Len(Filed(collected_data, "markets", 1))
                  + Len(Filed(collected_data, "selections", 1))

\* C24 as stated: once the instructions are executed, the records of every
\* named collection are in the bucket of the result that the name of the
\* collection chooses, in collection order, and nowhere else; the sizes of
\* the buckets sum to the number of collected records.  In api mode the
\* records of a Collect are those of the collection it names.
C24_FiledByName ==
    [][/\ FiledNow =>
             \A b \in {"events", "markets", "selections"} :
                 result'[b] = Filed(collected_data, b, 1)
       /\ (pc' = "persist" /\ config.fetcher = "interactive") =>
             Len(result'.events) + Len(result'.markets) + Len(result'.selections)
                 = CollectedCount
       /\ (pc' = "persist" /\ config.fetcher = "api") =>
             \A b \in {"events", "markets", "selections"} :
                 \A j \in DOMAIN result'[b] :
                     \E k \in DOMAIN config.instructions :
                         /\ config.instructions[k].type = "collect"
                         /\ DOMAIN result'[b][j] = DOMAIN config.instructions[k].fields
                         /\ Bucket(config.instructions[k].name) = b]_vars

\* what the code does: an interactive run files its collections by name; it
\* adds the sample event when the context has no collection; an api run
\* puts the records of every Collect in events, whatever its name
C24_FiledByNameButApi ==
    [][/\ FiledNow =>
             \A b \in {"events", "markets", "selections"} :
                 result'[b] = Filed(collected_data, b, 1)
       /\ (pc' = "persist" /\ config.fetcher = "interactive") =>
             Len(result'.events) + Len(result'.markets) + Len(result'.selections)
                 \in IF collected_data = <<>> THEN {0, 1} ELSE {CollectedCount}
       /\ (pc' = "persist" /\ config.fetcher = "api") =>
             /\ result'.markets = <<>> /\ result'.selections = <<>>
             /\ \A j \in DOMAIN result'.events :
                   \E k \in DOMAIN config.instructions :
                       /\ config.instructions[k].type = "collect"
                       /\ DOMAIN result'.events[j] = DOMAIN config.instructions[k].fields]_vars

\* C25: the result is not modified after finalize, and the result a run
\* returns has the counts of its lists in its metadata, the errors of
\* persistence included.
C25_FinalizeIsLast ==
    /\ [](pc = "returned" =>
             /\ result.end_time
             /\ result.metadata.total_events = Len(result.events)
             /\ result.metadata.total_markets = Len(result.markets)
             /\ result.metadata.total_selections = Len(result.selections)
             /\ result.metadata.error_count = Len(result.errors))
    /\ [][(pc # "start" /\ result.end_time) => result' = result]_vars

\* a run has returned a result with an event, an earlier error and, last, an
\* error of persistence, all of them counted
C25_Witness ==
    /\ pc = "returned"
    /\ Len(result.events) >= 1
    /\ Len(result.errors) = 2
    /\ result.errors[2] = "Failed to save event"
    /\ result.metadata.error_count = 2
    /\ result.metadata.total_events = Len(result.events)

\* C28: when the session cannot be made, the navigation to the start URL
\* fails or the fetch fails, the step that records the error ends the
\* scraping: there is no context, no instruction is executed then or later,
\* nothing is collected, and the result keeps at least one error.
C28_FailedFetchAborts ==
    /\ [][(pc \in {"session", "navigate", "api", "simple"}
             /\ Len(result'.errors) > Len(result.errors))
          => /\ pc' \in {"close", "persist"}
             /\ stack' = <<>>
             /\ result'.events = <<>> /\ result'.markets = <<>>
             /\ result'.selections = <<>>]_vars
    /\ [](stack = <<>> =>
             /\ last = NoCall /\ collected_data = <<>>
             /\ loop_counters = <<>> /\ variables = <<>>)
    /\ []((config.fetcher = "interactive" /\ stack = <<>>
              /\ pc \in {"close", "persist", "cleanup", "finalize", "returned", "raised"})
           => /\ result.events = <<>> /\ result.markets = <<>> /\ result.selections = <<>>
              /\ calls.cancels = 0 => Len(result.errors) >= 1)

\* an interactive run whose navigation failed has returned: no instruction
\* was executed, and the result has the error and no record
C28_Witness ==
    /\ pc = "returned" /\ config.fetcher = "interactive" /\ session = "browser"
    /\ calls.closes = 1 /\ calls.cancels = 0
    /\ stack = <<>> /\ last = NoCall
    /\ result.errors[1] = "Interactive scraping error"
    /\ result.metadata.total_events = 0

\* an instruction of the top-level list is executed in this step and fails
TopLevelFails(type) ==
    /\ pc = "exec" /\ pc' = "exec"
    /\ Len(stack) = 1 /\ Len(stack') = 1
    /\ Top.pos <= Len(Top.seq) /\ Current.type = type
    /\ last' # last \/ stack'[1].pos # Top.pos
    /\ stack'[1].ran[Len(stack'[1].ran)].result = "false"

\* C29 as stated: a Navigate instruction that fails in the middle of a run
\* adds an error to the result of the run, and the run goes on with the
\* next instruction.
C29_FailedNavigateRecorded ==
    [][TopLevelFails("navigate") =>
          /\ Len(result'.errors) = Len(result.errors) + 1
          /\ stack'[1].pos = Top.pos + 1]_vars

\* what the code does: the run goes on with the next instruction, and the
\* result is left as it was: the failure is only logged
C29_FailedNavigateOnlyLogged ==
    [][TopLevelFails("navigate") =>
          /\ result' = result
          /\ stack'[1].pos = Top.pos + 1]_vars

(***************************************************************************)
(* Properties of the loops, from the history of their tests (Spec).        *)
(***************************************************************************)
\* the step is the end of a pass of a pagination loop, not a cancellation
PaginationPassEnds ==
    /\ AtEnd("loop")
    /\ Top.instr.iterator = "pagination"
    /\ pc' = "exec"
    /\ stack' # stack

\* the positions of ops that hold one of the operations
Positions(ops, operations) == { k \in DOMAIN ops : ops[k] \in operations }

\* C31: a pass of a pagination loop ends when every instruction of the body
\* has run; then break_condition (if there is one) is evaluated, before
\* anything is done with the next control, and the control is looked for
\* before it is clicked.  When break_condition held, or the control was not
\* there or was disabled, the control is not clicked, the counter stays, and
\* the loop returns in that step; the loop goes on only after a click.
C31_PaginationPassInOrder ==
    [][PaginationPassEnds =>
          LET ops == loop_log'.ops
              evaluated == Positions(ops, {"break_condition true", "break_condition false"})
              located == Positions(ops, {"query_selector", "query_selector None",
                                         "query_selector raised"})
              clicked == Positions(ops, {"click", "click raised"})
              returned == Len(stack') < Len(stack)
          IN  /\ [k \in DOMAIN Top.ran |-> Top.ran[k].pos] = [k \in DOMAIN Top.seq |-> k]
              /\ loop_log'.id = Top.instr.id
              /\ evaluated = IF Top.instr.break_condition = NoCondition THEN {} ELSE {1}
              /\ \A k \in located : \A b \in evaluated : b < k
              /\ \A c \in clicked : \E k \in located : k < c
              /\ Positions(ops, {"break_condition true", "query_selector None",
                                 "is_enabled False"}) # {} =>
                    /\ clicked = {}
                    /\ returned
                    /\ loop_counters' = loop_counters
              /\ ~returned =>
                    /\ Positions(ops, {"click"}) # {}
                    /\ stack'[Len(stack)].phase = "head"
                    /\ stack'[Len(stack)].clicks = Top.clicks + 1]_vars

\* the body ran, break_condition did not hold, and the next control was
\* there but disabled: the loop returned
C31_Witness ==
    /\ pc = "exec"
    /\ loop_log.ops = <<"break_condition false", "query_selector", "is_enabled False">>
    /\ last.type = "loop" /\ last.id = loop_log.id /\ last.result = "true"
    /\ Len(stack) = 1 /\ Len(Top.ran) = 1

\* C32: in a while loop a pass over the body begins only in the step in
\* which while_condition was evaluated and was true, and begins with the
\* first instruction of the body; the step in which it was evaluated and was
\* false ends the execution of the loop, so that nothing of the loop follows.
C32_WhileBodyFollowsTrueCondition ==
    [][/\ \A k \in DOMAIN stack \cap DOMAIN stack' :
             (/\ stack[k].kind = "loop" /\ stack'[k].kind = "loop"
              /\ stack[k].instr.iterator = "while"
              /\ \/ stack'[k].runs # stack[k].runs
                 \/ stack[k].phase = "head" /\ stack'[k].phase = "body") =>
                /\ k = Len(stack) /\ k = Len(stack')
                /\ stack[k].phase = "head"
                /\ loop_log'.id = stack[k].instr.id
                /\ loop_log'.ops = <<"while_condition true">>
                /\ stack'[k].runs = stack[k].runs + 1
                /\ stack'[k].phase = "body" /\ stack'[k].pos = 1
       /\ (/\ pc = "exec" /\ pc' = "exec"
           /\ Top.kind = "loop" /\ Top.phase = "head" /\ Top.instr.iterator = "while"
           /\ loop_log' # loop_log
           /\ loop_log'.ops = <<"while_condition false">>) =>
              /\ Len(stack') = Len(stack) - 1
              /\ last'.id = Top.instr.id /\ last'.result = "true"]_vars

\* a while loop made a pass, evaluated its condition again, found it false
\* and returned
C32_Witness ==
    /\ pc = "exec"
    /\ loop_log.ops = <<"while_condition false">>
    /\ loop_log.id \in DOMAIN loop_log.passes
    /\ loop_log.passes[loop_log.id] = 1
    /\ last.type = "loop" /\ last.id = loop_log.id
    /\ Len(stack) = 1

\* C33 as stated: the counter of a loop never decreases during the run, and
\* is never more than the max_iterations of the loop.
C33_CounterMonotonicAndCapped ==
    /\ [][\A id \in DOMAIN loop_counters :
              id \in DOMAIN loop_counters' /\ loop_counters'[id] >= loop_counters[id]]_vars
    /\ [](\A k \in LoopFrames :
              stack[k].instr.max_iterations.some =>
                  loop_counters[LoopId(stack[k].instr)] <= stack[k].instr.max_iterations.v)

\* what the code does: the counter is capped, and grows by one at a time
\* while the loop is executed; every execution of the Loop instruction sets
\* it back to 0, so the counter of a loop inside a loop falls with every pass
\* of the outer one
C33_CounterCappedAndResetOnEntry ==
    /\ [][\A id \in DOMAIN loop_counters :
              /\ id \in DOMAIN loop_counters'
              /\ \/ loop_counters'[id] \in {loop_counters[id], loop_counters[id] + 1}
                 \/ /\ AtInstruction({"loop"}) /\ LoopId(Current) = id
                    /\ loop_counters'[id] = 0]_vars
    /\ [](\A k \in LoopFrames :
              stack[k].instr.max_iterations.some =>
                  loop_counters[LoopId(stack[k].instr)] <= stack[k].instr.max_iterations.v)

\* the product of the max_iterations of the loops under way up to frame k
RECURSIVE CapProduct(_)
CapProduct(k) ==
    IF k = 0 THEN 1
    ELSE (IF stack[k].kind = "loop" /\ stack[k].instr.max_iterations.some
          THEN stack[k].instr.max_iterations.v ELSE 1) * CapProduct(k - 1)

\* C34: the cap of a loop inside a loop holds for each execution of the
\* inner loop on its own, whatever the counter of the outer loop is: the
\* passes of one execution are at most its max_iterations, the passes it has
\* made in the whole run are at most the product of the caps of the loops it
\* is in, and no step taken inside a loop changes the counter, the passes or
\* the index of a loop around it.
C34_CapsHoldAtEveryLevel ==
    /\ [](\A k \in LoopFrames :
             /\ stack[k].instr.max_iterations.some =>
                   /\ stack[k].runs <= stack[k].instr.max_iterations.v
                   /\ stack[k].instr.id \in DOMAIN loop_log.passes =>
                         loop_log.passes[stack[k].instr.id] <= CapProduct(k)
             /\ stack[k].instr.iterator # "pagination" =>
                   loop_counters[LoopId(stack[k].instr)] =
                       stack[k].runs - (IF stack[k].phase = "body" THEN 1 ELSE 0))
    /\ [][\A k \in LoopFrames :
             (k < Len(stack) /\ k \in DOMAIN stack') =>
                /\ stack'[k].runs = stack[k].runs
                /\ stack'[k].i = stack[k].i
                /\ stack'[k].phase = stack[k].phase
                /\ loop_counters'[LoopId(stack[k].instr)] =
                      loop_counters[LoopId(stack[k].instr)]]_vars

\* the outer loop is in its second and last pass, and the inner loop has
\* again made all the passes its own cap allows: four in the run
C34_Witness ==
    /\ pc = "exec" /\ Len(stack) = 3
    /\ stack[2].kind = "loop" /\ stack[3].kind = "loop"
    /\ stack[2].runs = MaxIter /\ stack[2].instr.max_iterations = SomeInt(MaxIter)
    /\ stack[3].runs = MaxIter /\ stack[3].instr.max_iterations = SomeInt(MaxIter)
    /\ stack[3].phase = "head"
    /\ loop_log.passes[stack[3].instr.id] = MaxIter * MaxIter
    /\ loop_counters[LoopId(stack[2].instr)] = MaxIter - 1

\* an instruction of the body of a count loop is about to be executed
InCountBody ==
    /\ AtInstruction(HandledTypes \cup {"unhandled"})
    /\ Top.kind = "loop"
    /\ Top.instr.iterator = "count"

\* C35 as stated: every instruction of the body of a count loop finds in
\* loop_index the zero-based index of the pass it is executed in.
C35_LoopIndexIsIndexOfPass ==
    InCountBody => variables["loop_index"] = Top.i

\* what the code does: loop_index is one variable of the context, and holds
\* the index of the pass of whichever count loop began a pass last.  The
\* instructions before a count loop in the body find the index of the pass;
\* the ones after a count loop that made passes find the index of its last
\* pass.
C35_LoopIndexIsIndexOfLatestPass ==
    InCountBody =>
        LET Passes(instr) ==
                IF instr.type = "loop" /\ instr.iterator = "count" /\ Truthy(instr.count)
                   /\ instr.max_iterations.some
                THEN Min(instr.count.v, instr.max_iterations.v) ELSE 0
            inner == { j \in 1..(Top.pos - 1) : Passes(Top.seq[j]) > 0 }
        IN  IF inner = {} THEN variables["loop_index"] = Top.i
            ELSE LET j == CHOOSE j \in inner : \A o \in inner : o <= j
                 IN  variables["loop_index"] = Passes(Top.seq[j]) - 1

\* the step in which a pagination loop returns (not a cancellation)
PaginationReturns ==
    /\ pc = "exec" /\ pc' = "exec"
    /\ Top.kind = "loop"
    /\ Top.instr.iterator = "pagination"
    /\ Len(stack') = Len(stack) - 1

\* the clicks of a pagination loop are never more than its passes, and are
\* what its counter counts
ClicksWithinPasses ==
    \A k \in LoopFrames :
        stack[k].instr.iterator = "pagination" =>
            /\ stack[k].clicks <= stack[k].runs
            /\ stack[k].clicks = loop_counters[LoopId(stack[k].instr)]

\* C36 as stated: the next control is clicked at most as often as the body
\* is run, and as often exactly when the loop ended because the counter had
\* reached max_iterations; the last thing the loop did then was the click.
C36_ClicksEqualPassesExactlyAtCap ==
    /\ []ClicksWithinPasses
    /\ [][PaginationReturns =>
             LET capped == /\ Top.phase = "head"
                           /\ Top.instr.max_iterations.some
                           /\ ~UnderCap(loop_counters[LoopId(Top.instr)],
                                        Top.instr.max_iterations)
             IN  /\ Top.clicks = Top.runs <=> capped
                 /\ (capped /\ Top.runs > 0) =>
                       /\ loop_log.id = Top.instr.id
                       /\ Positions(loop_log.ops, {"click"}) # {}]_vars

\* C36: the next control is clicked at most as often as the body is run, and
\* as often exactly when the loop ended at the test it makes before a pass:
\* either the counter had reached max_iterations, and then the last thing
\* the loop did was the click, after the last pass; or max_iterations is None,
\* and then the loop made no pass and no click and failed.  A loop that ends
\* after a pass (break_condition, or no click) has made one click less than
\* passes.
C36_ClicksEqualPassesAtLoopTest ==
    /\ []ClicksWithinPasses
    /\ [][PaginationReturns =>
             LET capped == /\ Top.phase = "head"
                           /\ Top.instr.max_iterations.some
                           /\ ~UnderCap(loop_counters[LoopId(Top.instr)],
                                        Top.instr.max_iterations)
                 uncapped == Top.phase = "head" /\ ~Top.instr.max_iterations.some
             IN  /\ Top.clicks = Top.runs <=> (capped \/ uncapped)
                 /\ Top.clicks # Top.runs => Top.clicks = Top.runs - 1
                 /\ capped => last'.result = "true"
                 /\ (capped /\ Top.runs > 0) =>
                       /\ loop_log.id = Top.instr.id
                       /\ Positions(loop_log.ops, {"click"}) # {}
                 /\ uncapped =>
                       /\ Top.runs = 0
                       /\ last'.result = "false"]_vars

\* a pagination loop has made as many passes as its cap allows, each
\* followed by a click, and is at the test that ends it
C36_Witness ==
    /\ pc = "exec"
    /\ Top.kind = "loop" /\ Top.instr.iterator = "pagination" /\ Top.phase = "head"
    /\ Top.instr.max_iterations = SomeInt(MaxIter)
    /\ Top.runs = MaxIter /\ Top.clicks = MaxIter
    /\ loop_counters[LoopId(Top.instr)] = MaxIter
    /\ loop_log.ops = <<"break_condition false", "query_selector", "is_enabled True",
                        "click", "sleep">>

\* C37: in a run with the interactive fetcher, cleanup is called only after
\* close_session has been called, each once, and a run that has ended (by
\* returning or with an exception or cancellation that leaves it) has called
\* both, whatever failed on the way.
C37_SessionClosedBeforeCleanup ==
    /\ [][(config.fetcher = "interactive" /\ calls'.cleanups # calls.cleanups) =>
             /\ calls.closes = 1 /\ calls'.closes = 1
             /\ calls.cleanups = 0 /\ calls'.cleanups = 1]_vars
    /\ []((config.fetcher = "interactive" /\ pc \in {"returned", "raised"}) =>
             calls.closes = 1 /\ calls.cleanups = 1)

\* a run whose last instruction failed has called close_session and cleanup
\* and has returned
C37_Witness ==
    /\ config.fetcher = "interactive"
    /\ pc = "returned"
    /\ last.result = "false"
    /\ calls.closes = 1 /\ calls.cleanups = 1
    /\ session = "browser"

\* the instructions of an interactive run were all executed, and what
\* follows them in _run_interactive_scraping is over
InstructionsDone ==
    /\ config.fetcher = "interactive"
    /\ pc \in {"close", "persist", "cleanup", "finalize", "returned", "raised"}
    /\ Len(stack) = 1
    /\ stack[1].pos > Len(stack[1].seq)

\* the lists of the result hold the collections, filed by name, and nothing
\* else
OnlyCollected ==
    /\ result.events = Filed(collected_data, "events", 1)
    /\ result.markets = Filed(collected_data, "markets", 1)
    /\ result.selections = Filed(collected_data, "selections", 1)

\* C38 as stated: after the instructions, events holds exactly one Sample
\* Event when no Collect stored a collection, and the lists hold only what
\* the Collects stored when one did.
C38_PlaceholderIffNoCollection ==
    InstructionsDone =>
        IF collected_data = <<>>
        THEN /\ result.events = <<SampleEvent>>
             /\ result.markets = <<>> /\ result.selections = <<>>
        ELSE OnlyCollected

\* C38: after the instructions, when no Collect stored a collection, events
\* holds exactly one Sample Event, unless the final page could not be read:
\* get_current_content raised, which is recorded as an error, or the run was
\* cancelled there; then the lists are empty.  When a Collect stored a
\* collection (an empty one too) the lists hold only what the Collects stored.
C38_PlaceholderIffNoCollectionAndPageRead ==
    InstructionsDone =>
        IF collected_data = <<>>
        THEN /\ result.markets = <<>> /\ result.selections = <<>>
             /\ \/ result.events = <<SampleEvent>>
                \/ /\ result.events = <<>>
                   /\ \/ /\ result.errors # <<>>
                         /\ result.errors[1] = "Interactive scraping error"
                      \/ calls.cancels > 0
        ELSE OnlyCollected

\* a run with Collect instructions none of which stored a collection (no
\* container was found) has returned one Sample Event
C38_Witness ==
    /\ InstructionsDone /\ pc = "returned"
    /\ \E k \in DOMAIN config.instructions : config.instructions[k].type = "collect"
    /\ collected_data = <<>>
    /\ result.events = <<SampleEvent>>
    /\ result.errors = <<>>

(***************************************************************************)
(* SpecHandler: one handler, on one instruction, with one answer of the    *)
(* page.                                                                   *)
(***************************************************************************)
\* largest count an element_count condition is meant to wait for
MaxTarget == 3

\* The conditions carry, besides their type, what the configuration gives as
\* value ("selector", or "count" for an element_count whose value is the
\* count) and the count the condition is meant to reach; the code has no
\* field for the count but value.  A query whose selector is a number raises.
InitHandler ==
    LET Conditions ==
            { [type |-> t, value |-> IF t = "timeout" THEN "ms" ELSE "selector",
               count |-> 1] : t \in {"timeout", "selector", "url_contains"} }
            \cup { [type |-> "element_count", value |-> v, count |-> n] :
                     v \in {"selector", "count"}, n \in 0..MaxTarget }
        Instructions ==
            { ClickInstruction(1, o, a, w) :
                o \in BOOLEAN, a \in BOOLEAN, w \in {NoCondition, Condition("selector")} }
            \cup { WaitInstruction(1, c) : c \in Conditions }
            \cup { NavigateInstruction(1, NoCondition), InputInstruction(1) }
            \cup { SelectInstruction(1, g) : g \in {"", "value", "text", "index"} }
            \cup { ScrollInstruction(1, d, e) :
                     d \in {"down", "up", "to_element"}, e \in BOOLEAN }
        Quiet == [n |-> 0, there |-> FALSE, err |-> FALSE]
    IN  /\ IdleProc
        /\ IdleCollect
        /\ IdleRun
        /\ IdlePersist
        /\ IdleShared
        /\ h_pc = "start"
        /\ h_instr \in Instructions
        /\ h_obs \in IF h_instr.type = "wait" THEN {"ok"} ELSE PageObs
        /\ h_cobs \in IF h_instr.type = "wait" \/ h_instr.wait_after # NoCondition
                      THEN ConditionObs ELSE {Quiet}
        /\ (h_instr.type = "wait" /\ h_instr.condition.value = "count") => h_cobs.err
        /\ h_res = ""

\* handler.execute(instruction, context)
HandlerExecute ==
    /\ h_pc = "start"
    /\ h_res' = Execute(h_instr, h_obs, h_cobs, "raised")
    /\ h_pc' = "done"
    /\ UNCHANGED <<h_instr, h_obs, h_cobs, procVars, colVars, runVars, persistVars, sharedVars>>

NextHandler == HandlerExecute

SpecHandler == InitHandler /\ [][NextHandler]_vars

(***************************************************************************)
(* Properties of the handlers (SpecHandler).                               *)
(***************************************************************************)
\* a Wait has handed back what handle_wait_condition gave for its condition
Evaluated(type) ==
    h_pc = "done" /\ h_instr.type = "wait" /\ h_instr.condition.type = type

\* C13: evaluating a condition gives a boolean, whatever the page does:
\* false when the page raised, and false for a selector that did not show
\* before its timeout.
C13_ConditionYieldsBool ==
    (h_pc = "done" /\ h_instr.type = "wait") =>
        /\ h_res \in {"true", "false"}
        /\ (h_cobs.err /\ h_instr.condition.type # "timeout") => h_res = "false"
        /\ (h_instr.condition.type = "selector" /\ ~h_cobs.there) => h_res = "false"

\* a selector condition timed out on a page with matching elements that
\* never became visible, and gave false
C13_Witness ==
    /\ Evaluated("selector")
    /\ ~h_cobs.err /\ ~h_cobs.there /\ h_cobs.n > 0
    /\ h_res = "false"

\* C14 as stated: an element_count condition meant to reach a count n is
\* true exactly when the elements matching its selector are at least n.
C14_CountAtLeastTarget ==
    (Evaluated("element_count") /\ h_instr.condition.value = "selector" /\ ~h_cobs.err) =>
        (h_res = "true") = (h_cobs.n >= h_instr.condition.count)

\* what the code does: the condition is true exactly when at least one
\* element matches, whatever the count it is meant to reach; and when the
\* value of the condition is the count, the query raises and it is false
C14_CountAtLeastOne ==
    Evaluated("element_count") =>
        (h_res = "true") = (~h_cobs.err /\ h_cobs.n >= 1)

\* a Click has been executed
Clicked == h_pc = "done" /\ h_instr.type = "click"

\* C18 as stated: when the target of a Click cannot be found or clicked, the
\* result is the optional flag, in single and in all_matching mode and for
\* every kind of failure.
C18_FailedClickYieldsOptional ==
    (Clicked /\ h_obs # "ok") => h_res = AsOutcome(h_instr.optional)

\* what the code does: the result is the optional flag when a single click
\* times out and when all_matching finds no element; it is the negation of
\* the flag when the click or the query raises another error, and success
\* when all_matching finds elements it fails to click
C18_FailedClickByKind ==
    (Clicked /\ h_obs # "ok") =>
        h_res = CASE h_obs = "error" -> AsOutcome(~h_instr.optional)
                  [] h_instr.all_matching /\ h_obs = "timeout" -> "true"
                  [] OTHER -> AsOutcome(h_instr.optional)

\* a handler of the given type has been executed
Handled(type) == h_pc = "done" /\ h_instr.type = type

\* C19 as stated: Navigate, Input, Select and Scroll return false, and do
\* not raise, when the target is missing or cannot be driven: a navigation
\* that fails, an input or select element that is absent, a Select given
\* none of value, text and index, and a Scroll to_element whose element is
\* not given or not found.
C19_MissingTargetYieldsFalse ==
    /\ (h_pc = "done" /\ h_instr.type \in {"navigate", "input", "select", "scroll"}) =>
           h_res \in {"true", "false"}
    /\ (Handled("navigate") /\ h_obs # "ok") => h_res = "false"
    /\ (Handled("input") /\ h_obs # "ok") => h_res = "false"
    /\ (Handled("select") /\ (h_instr.given = "" \/ h_obs # "ok")) => h_res = "false"
    /\ (Handled("scroll") /\ h_instr.direction = "to_element"
          /\ (~h_instr.selector \/ h_obs # "ok")) => h_res = "false"

\* what the code does: as stated, except that a Scroll to_element without a
\* selector looks for nothing and returns true
C19_ScrollWithoutSelectorSucceeds ==
    /\ (h_pc = "done" /\ h_instr.type \in {"navigate", "input", "select", "scroll"}) =>
           h_res \in {"true", "false"}
    /\ (Handled("navigate") /\ h_obs # "ok") => h_res = "false"
    /\ (Handled("input") /\ h_obs # "ok") => h_res = "false"
    /\ (Handled("select") /\ (h_instr.given = "" \/ h_obs # "ok")) => h_res = "false"
    /\ (Handled("scroll") /\ h_instr.direction = "to_element" /\ h_instr.selector
          /\ h_obs # "ok") => h_res = "false"
    /\ (Handled("scroll") /\ h_instr.direction = "to_element" /\ ~h_instr.selector) =>
           h_res = "true"

(***************************************************************************)
(* SpecLoad: one ScraperRunner.run_scraper_from_file, which loads the      *)
(* configuration document and, once ScraperConfig accepted it, makes the   *)
(* run of Spec.  config holds the document: fetcher and instructions as    *)
(* ScraperConfig keeps them, meta for whether the required sections are    *)
(* there, given for whether the document has an "instructions" key at all  *)
(* (without one the field takes its default, the empty list).             *)
(***************************************************************************)
InitLoad ==
    LET Document(c, meta, given) ==
            [fetcher |-> c.fetcher, instructions |-> c.instructions, meta |-> meta,
             given |-> given]
        Empty == { [fetcher |-> f, instructions |-> <<>>] :
                     f \in {"static", "browser", "api", "interactive"} }
        Collecting == { c \in Configs : c.fetcher # "interactive" }
    IN  /\ IdleProc
        /\ IdleCollect
        /\ IdleHandler
        /\ IdlePersist
        /\ IdleShared
        /\ pc = "load"
        /\ config \in { Document(c, TRUE, TRUE) : c \in Configs }
                      \cup { Document(c, FALSE, TRUE) : c \in Collecting }
                      \cup { Document(c, TRUE, g) : c \in Empty, g \in BOOLEAN }
                      \cup { Document([c EXCEPT !.fetcher = "browser"], TRUE, TRUE) :
                               c \in Collecting }
                      \cup { Document([c EXCEPT !.fetcher = "static"], TRUE, TRUE) :
                               c \in Configs }
        /\ fetcher = "none"
        /\ session = "none"
        /\ result = <<>>
        /\ exc = "none"
        /\ stack = <<>>
        /\ loop_counters = <<>>
        /\ variables = <<>>
        /\ collected_data = <<>>
        /\ last = NoCall
        /\ calls = [created |-> 0, cleanups |-> 0, closes |-> 0, cancels |-> 0]
    /\ loop_log = NoLoop

\* the result run_scraper_from_file returns from its except clause
LoadingError ==
    Finalize(AddError([events |-> <<>>, markets |-> <<>>, selections |-> <<>>,
                       errors |-> <<>>, end_time |-> FALSE, metadata |-> <<>>],
                      "Config loading error"))

\* ConfigLoader.load_from_yaml: ScraperConfig(**raw_config).  A required
\* section that is missing is an error; validate_instructions is called with
\* the list the document gives, and not for the default of a document that
\* gives none; validate_config wants an instruction for the browser when the
\* fetcher is the browser.  An error is caught by run_scraper_from_file.
LoadConfig ==
    /\ pc = "load"
    /\ LET has_browser_instruction ==
              \E k \in DOMAIN config.instructions :
                  config.instructions[k].type \in
                      {"click", "wait", "input", "select", "scroll"}
           accepted ==
              /\ config.meta
              /\ ~(config.given /\ config.instructions = <<>>)
              /\ config.fetcher = "browser" => has_browser_instruction
       IN  IF accepted
           THEN /\ pc' = "start"
                /\ UNCHANGED result
           ELSE /\ pc' = "returned"
                /\ result' = LoadingError
    /\ UNCHANGED <<procVars, colVars, handlerVars, persistVars, sharedVars>>
    /\ UNCHANGED loop_log
    /\ UNCHANGED <<config, fetcher, session, exc, stack, loop_counters, variables,
                   collected_data, last, calls>>

\* the except clause of run_scraper_from_file around run_scraper: it takes
\* the exception that left run for a failure to load
RunnerCatch ==
    /\ pc = "raised" /\ exc = "Exception"
    /\ pc' = "returned"
    /\ exc' = "none"
    /\ result' = LoadingError
    /\ UNCHANGED <<procVars, colVars, handlerVars, persistVars, sharedVars>>
    /\ UNCHANGED loop_log
    /\ UNCHANGED <<config, fetcher, session, stack, loop_counters, variables,
                   collected_data, last, calls>>

NextLoad ==
    \/ LoadConfig
    \/ RunnerCatch
    \/ RunStart
    \/ CreateSession
    \/ Navigate
    \/ ExecSimple
    \/ ExecCollect
    \/ EnterIf
    \/ ExitIf
    \/ EnterLoop
    \/ LoopHead
    \/ LoopTail
    \/ FinishInstructions
    \/ FinalContent
    \/ CloseSession
    \/ ApiScrape
    \/ SimpleScrape
    \/ Persist
    \/ Cleanup
    \/ FinishRun
    \/ Cancel

SpecLoad == InitLoad /\ [][NextLoad]_vars

(***************************************************************************)
(* Properties of loading (SpecLoad).                                       *)
(***************************************************************************)
\* the document was refused: the runner has returned the loading error, and
\* no fetcher was made, no instruction executed, nothing handed to the
\* persister
NeverRun ==
    /\ pc \in {"load", "returned"}
    /\ pc = "returned" => result = LoadingError
    /\ calls.created = 0 /\ fetcher = "none"
    /\ stack = <<>> /\ last = NoCall

\* C20 as stated: a structurally invalid configuration, in particular one
\* whose instruction list is empty, is reported with errors and never run.
C20_InvalidNeverRuns ==
    (~config.meta \/ config.instructions = <<>>) => NeverRun

\* what the code does: the configuration is refused when a required section
\* is missing and when the document gives an empty instruction list; the
\* empty list of a document that gives no instructions is not looked at
C20_GivenEmptyListRefused ==
    (~config.meta \/ (config.given /\ config.instructions = <<>>)) => NeverRun

\* some instruction of the list, or nested in a Loop or an If of the list,
\* needs a session: Click, Input, Select, Scroll, Navigate
RECURSIVE SessionOnlyIn(_)
SessionOnlyIn(instructions) ==
    \E k \in DOMAIN instructions :
        \/ instructions[k].type \in {"click", "input", "select", "scroll", "navigate"}
        \/ SessionOnlyIn(instructions[k].instructions)
        \/ SessionOnlyIn(instructions[k].then_instructions)
        \/ SessionOnlyIn(instructions[k].else_instructions)

\* C21 as stated: a configuration with a static fetcher and a session-only
\* instruction, at the top level or nested, is refused at load time and
\* never reaches the run.
C21_StaticWithSessionOnlyRefused ==
    (config.meta /\ config.fetcher = "static" /\ SessionOnlyIn(config.instructions)) =>
        NeverRun

\* what the code does: the configuration is loaded and run; the run makes
\* its fetcher and fetches, executes no instruction, and reports the
\* instructions at run time
C21_StaticWithSessionOnlyFailsInRun ==
    (config.meta /\ config.fetcher = "static" /\ SessionOnlyIn(config.instructions)) =>
        /\ stack = <<>> /\ last = NoCall
        /\ pc = "returned" =>
              /\ calls.created = 1
              /\ result.events = <<>>
              /\ result.errors \in {<<"Simple scraping error">>,
                                    <<"Instructions require interactive fetcher">>,
                                    <<"Simple scraping error", "Persistence error">>,
                                    <<"Instructions require interactive fetcher",
                                      "Persistence error">>}

(***************************************************************************)
(* SpecPersist: _persist_results on the events of one result, and the same *)
(* result submitted again.  The store is the events table with the         *)
(* mapping hash of the normalized event of each row.  The result has       *)
(* markets and selections too, records that are no events.                 *)
(***************************************************************************)
\* most events of a result
MaxEvents == 3

\* how often the result is submitted
MaxRounds == 2

\* DatabasePersister._generate_mapping_hash: the identifier that is hashed;
\* md5 is taken to keep identifiers apart.  repr is str(event_data).
MappingHash(event_data) ==
    IF event_data.market_id # "" THEN event_data.market_id
    ELSE IF event_data.question # "" THEN event_data.question
    ELSE IF event_data.slug # "" THEN event_data.slug
    ELSE event_data.repr

InitPersist ==
    LET EventData(market_id, question, slug, repr) ==
            [market_id |-> market_id, question |-> question, slug |-> slug, repr |-> repr]
        Events == { EventData("m1", "", "", "{A}"), EventData("m1", "q1", "s1", "{B}"),
                    EventData("", "", "s1", "{C}"), EventData("", "", "", "{D}") }
    IN  /\ IdleProc
        /\ IdleCollect
        /\ IdleRun
        /\ IdleHandler
        /\ IdleShared
        /\ ps_pc = "start"
        /\ ps_events \in SeqsUpTo(Events, MaxEvents)
        /\ \E others \in BOOLEAN :
              /\ ps_markets = IF others THEN <<EventData("", "", "", "{M}")>> ELSE <<>>
              /\ ps_selections = IF others THEN <<EventData("", "", "", "{S}")>> ELSE <<>>
        /\ ps_ids = <<>>
        /\ ps_i = 0
        /\ ps_calls = <<>>
        /\ ps_store = <<>>
        /\ ps_errors = <<>>
        /\ ps_round = 1

\* a loop over the events that stops at the first event that is not saved
NextEvent_StopOnError(i, saved) == IF saved THEN i + 1 ELSE MaxEvents + 2

\* "for event_data in result.events" with the try/except inside the loop:
\* the position after the event at i was saved or not
NextEvent(i, saved) == i + 1

\* a submission of the records of every list of the result
Submitted_AllBuckets(events, markets, selections) == events \o markets \o selections

\* "for event_data in result.events": the records _persist_results submits
Submitted(events, markets, selections) == events

\* _persist_results up to the loop: get_or_create_bookmaker, then
\* get_or_create_category, either of which may raise
PersistBegin ==
    /\ ps_pc = "start"
    /\ \/ /\ ps_ids' = <<"bookmaker", "category">>
          /\ ps_pc' = "loop"
          /\ ps_i' = 1
          /\ UNCHANGED ps_errors
       \/ /\ ps_ids' \in {<<>>, <<"bookmaker">>}
          /\ ps_pc' = "done"
          /\ ps_errors' = Append(ps_errors, "Persistence error")
          /\ UNCHANGED ps_i
    /\ UNCHANGED <<ps_events, ps_markets, ps_selections, ps_calls, ps_store, ps_round>>
    /\ UNCHANGED <<procVars, colVars, runVars, handlerVars, sharedVars>>

\* the record the loop is at
ToSave == Submitted(ps_events, ps_markets, ps_selections)[ps_i]

\* one pass of the loop: save_event_data adds an Event row and its
\* normalized event and commits, or raises and the session is rolled back
SaveEvent ==
    /\ ps_pc = "loop"
    /\ ps_i <= Len(Submitted(ps_events, ps_markets, ps_selections))
    /\ \E saved \in BOOLEAN :
          /\ ps_calls' = Append(ps_calls, [event_data |-> ToSave, saved |-> saved])
          /\ ps_store' = IF saved
                         THEN Append(ps_store,
                                     [id |-> Len(ps_store) + 1,
                                      mapping_hash |-> MappingHash(ToSave),
                                      round |-> ps_round])
                         ELSE ps_store
          /\ ps_errors' = IF saved THEN ps_errors
                          ELSE Append(ps_errors, "Failed to save event")
          /\ ps_i' = NextEvent(ps_i, saved)
    /\ UNCHANGED <<ps_pc, ps_events, ps_markets, ps_selections, ps_ids, ps_round>>
    /\ UNCHANGED <<procVars, colVars, runVars, handlerVars, sharedVars>>

\* the end of the loop
PersistEnd ==
    /\ ps_pc = "loop"
    /\ ps_i > Len(Submitted(ps_events, ps_markets, ps_selections))
    /\ ps_pc' = "done"
    /\ UNCHANGED <<ps_events, ps_markets, ps_selections, ps_ids, ps_i, ps_calls, ps_store,
                   ps_errors, ps_round>>
    /\ UNCHANGED <<procVars, colVars, runVars, handlerVars, sharedVars>>

\* the same result is submitted again
Resubmit ==
    /\ ps_pc = "done" /\ ps_round < MaxRounds
    /\ ps_pc' = "start"
    /\ ps_round' = ps_round + 1
    /\ ps_i' = 0
    /\ ps_ids' = <<>>
    /\ ps_calls' = <<>>
    /\ ps_errors' = <<>>
    /\ UNCHANGED <<ps_events, ps_markets, ps_selections, ps_store>>
    /\ UNCHANGED <<procVars, colVars, runVars, handlerVars, sharedVars>>

NextPersist ==
    \/ PersistBegin
    \/ SaveEvent
    \/ PersistEnd
    \/ Resubmit

SpecPersist == InitPersist /\ [][NextPersist]_vars

(***************************************************************************)
(* Properties of persistence (SpecPersist).                                *)
(***************************************************************************)
\* the calls of the submission that were not saved
NotSaved == { k \in DOMAIN ps_calls : ~ps_calls[k].saved }

\* C26: an event that cannot be saved adds one error to the result and the
\* loop goes on: once the bookmaker and the category are there, a submission
\* has save_event_data called for every event of the result, in order, and
\* adds one error for each call that failed.
C26_FailedSaveDoesNotAbort ==
    /\ ps_pc = "loop" =>
          /\ Len(ps_calls) = ps_i - 1
          /\ Len(ps_errors) = Cardinality(NotSaved)
    /\ (ps_pc = "done" /\ "Persistence error" \notin { ps_errors[k] : k \in DOMAIN ps_errors }) =>
          /\ [k \in DOMAIN ps_calls |-> ps_calls[k].event_data] = ps_events
          /\ Len(ps_errors) = Cardinality(NotSaved)

\* the first of three events was not saved; the other two were submitted
\* and saved, and the result has one error
C26_Witness ==
    /\ ps_pc = "done" /\ ps_round = 1
    /\ Len(ps_events) = 3 /\ Len(ps_calls) = 3
    /\ ~ps_calls[1].saved /\ ps_calls[2].saved /\ ps_calls[3].saved
    /\ ps_errors = <<"Failed to save event">>
    /\ Len(ps_store) = 2

\* C27 as stated: submitting the same result twice leaves the store as one
\* submission does: the second adds no Event row for an identity (mapping
\* hash) that has a row from the first.
C27_ResubmitAddsNoRow ==
    \A k \in DOMAIN ps_store, j \in DOMAIN ps_store :
        ps_store[k].mapping_hash = ps_store[j].mapping_hash =>
            ps_store[k].round = ps_store[j].round

\* what the code does: every save that succeeds adds a row of its own,
\* whatever the store holds
C27_EverySaveAddsRow ==
    /\ \A k \in DOMAIN ps_store : ps_store[k].id = k
    /\ ps_pc = "done" =>
          Cardinality({ k \in DOMAIN ps_store : ps_store[k].round = ps_round })
              = Len(ps_calls) - Cardinality(NotSaved)

(***************************************************************************)
(* SpecShared: two interactive runs at once, as two tasks of one event     *)
(* loop: run() of two ScraperPipeline objects, or run() called twice on    *)
(* one.  A step of a run goes from one await to the next.  A source is     *)
(* known by the run that created it; the fetcher a run works on is the     *)
(* self.fetcher of its pipeline object, read when the call is made.        *)
(***************************************************************************)
Runs == {1, 2}

InitShared ==
    /\ IdleProc
    /\ IdleCollect
    /\ IdleRun
    /\ IdleHandler
    /\ IdlePersist
    /\ sh_pc = [r \in Runs |-> "start"]
    /\ sh_same \in BOOLEAN
    /\ sh_fetcher = [o \in Runs |-> 0]
    /\ sh_log = {}

\* the pipeline object run r is a method call of
Self(r) == IF sh_same THEN 1 ELSE r

\* a call on self.fetcher made by run r; busy is whether the run that
\* created the source is another one, still under way
Operation(r, held, op) ==
    [run |-> r, source |-> held[Self(r)], op |-> op,
     busy |-> held[Self(r)] # r /\ sh_pc[held[Self(r)]] # "returned"]

\* run up to its first await: self.fetcher = FetcherFactory.create(...),
\* then self.fetcher.create_session()
RunBegins(r) ==
    /\ sh_pc[r] = "start"
    /\ sh_fetcher' = [sh_fetcher EXCEPT ![Self(r)] = r]
    /\ sh_log' = sh_log \cup {Operation(r, sh_fetcher', "create_session")}
    /\ sh_pc' = [sh_pc EXCEPT ![r] = "session"]
    /\ UNCHANGED sh_same
    /\ UNCHANGED <<procVars, colVars, runVars, handlerVars, persistVars>>

\* the run resumes and makes its next call on self.fetcher: navigate, then
\* (the instructions work on the page of the run) close_session in the
\* finally of _run_interactive_scraping, then cleanup in the finally of run
RunCallsFetcher(r) ==
    /\ sh_pc[r] \in {"session", "navigate", "close"}
    /\ LET op == CASE sh_pc[r] = "session" -> "navigate"
                   [] sh_pc[r] = "navigate" -> "close_session"
                   [] sh_pc[r] = "close" -> "cleanup"
       IN  /\ sh_log' = sh_log \cup {Operation(r, sh_fetcher, op)}
           /\ sh_pc' = [sh_pc EXCEPT ![r] = CASE op = "navigate" -> "navigate"
                                              [] op = "close_session" -> "close"
                                              [] op = "cleanup" -> "cleanup"]
    /\ UNCHANGED <<sh_same, sh_fetcher>>
    /\ UNCHANGED <<procVars, colVars, runVars, handlerVars, persistVars>>

\* the cleanup is over: finalize, return
RunReturns(r) ==
    /\ sh_pc[r] = "cleanup"
    /\ sh_pc' = [sh_pc EXCEPT ![r] = "returned"]
    /\ UNCHANGED <<sh_same, sh_fetcher, sh_log>>
    /\ UNCHANGED <<procVars, colVars, runVars, handlerVars, persistVars>>

NextShared ==
    \/ \E r \in Runs : RunBegins(r)
    \/ \E r \in Runs : RunCallsFetcher(r)
    \/ \E r \in Runs : RunReturns(r)

SpecShared == InitShared /\ [][NextShared]_vars

(***************************************************************************)
(* Properties of two runs at once (SpecShared).                            *)
(***************************************************************************)
\* every call was made by the run that created the source, so on no source
\* another run is using; and once both runs have returned, each source was
\* cleaned up once
KeptApart ==
    /\ \A e \in sh_log : e.source = e.run /\ ~e.busy
    /\ (\A r \in Runs : sh_pc[r] = "returned") =>
          \A s \in Runs :
              Cardinality({ e \in sh_log : e.op = "cleanup" /\ e.source = s }) = 1

\* C30 as stated: however two runs interleave, of two pipeline objects or of
\* one, each run works on the source it created only, and every source is
\* cleaned up exactly once, by the run that created it.
C30_RunsKeepToOwnSource == KeptApart

\* what the code does: the runs of two pipeline objects keep apart; two runs
\* of one object share self.fetcher, and the run that began first works on,
\* and cleans up, the source of the other
C30_RunsOfTwoObjectsKeepApart ==
    /\ ~sh_same => KeptApart
    /\ \A e \in sh_log : e.op = "create_session" => e.source = e.run

\* C39: a submission calls save_event_data only once the bookmaker and then
\* the category were obtained, on the records of result.events, each once
\* and in the order of the list, and on no record of result.markets or
\* result.selections; a submission that could not obtain the bookmaker or
\* the category makes no call and adds the one error "Persistence error".
C39_SubmitsEventsOnceInOrder ==
    /\ ps_calls # <<>> => ps_ids = <<"bookmaker", "category">>
    /\ \A k \in DOMAIN ps_calls :
          k \in DOMAIN ps_events /\ ps_calls[k].event_data = ps_events[k]
    /\ ps_pc = "done" =>
          IF ps_ids = <<"bookmaker", "category">>
          THEN /\ Len(ps_calls) = Len(ps_events)
               /\ \A k \in DOMAIN ps_errors : ps_errors[k] = "Failed to save event"
          ELSE /\ ps_calls = <<>>
               /\ ps_errors = <<"Persistence error">>
               /\ \A k \in DOMAIN ps_store : ps_store[k].round # ps_round

\* the category could not be obtained for a result of three events, a
\* market and a selection: nothing was submitted
C39_Witness ==
    /\ ps_pc = "done"
    /\ ps_ids = <<"bookmaker">>
    /\ Len(ps_events) = MaxEvents /\ ps_markets # <<>> /\ ps_selections # <<>>
    /\ ps_calls = <<>>
    /\ ps_errors = <<"Persistence error">>
====
